---- MODULE Spec2Model ----
(***************************************************************************)
(* rpi-simple-debugger: the DebuggerEngine snapshot, its producers (the    *)
(* GPIO, network and system monitor threads and application threads that   *)
(* call push_custom), the ConnectionManager registry and the broadcast     *)
(* coroutines that run on the asyncio event loop.                          *)
(*                                                                         *)
(* Conventions.                                                            *)
(*  - Optional[T] is a sequence: None is <<>> and a present value v is     *)
(*    <<v>>.                                                               *)
(*  - A float is an integer number of millionths (80.0 is 80000000), so    *)
(*    that 90.000001 and 90.0 are different values; dBm levels are ints.   *)
(*  - A producer thread is preemptible between statements: one step of a   *)
(*    thread is one statement of the update method it is in.               *)
(*  - The event loop runs one callback at a time: one step of a coroutine  *)
(*    is the code from one await to the next.  ws.send_json hands the      *)
(*    frame to the connection when it is called; the await may then        *)
(*    suspend the coroutine.                                               *)
(*  - A timestamp is a tick of the clock.  The readings the monitors make  *)
(*    are all stamped with tick 0 (default_factory=datetime.utcnow while   *)
(*    the clock stands still); the specifications about time pass          *)
(*    explicit timestamps to the engine.                                   *)
(***************************************************************************)
EXTENDS Integers, Sequences, FiniteSets, TLC

VARIABLES
  settings,   \* DebuggerSettings the engine was built with
  snapshot,   \* DebuggerEngine._snapshot
  thr,        \* per producer thread: position in the update method it is in
  netPos,     \* NetworkMonitor._loop: the callback it calls next
  nCalls,     \* number of update calls begun so far (the order of application)
  loopQueue,  \* broadcast coroutines handed to the loop, not yet started
  tasks,      \* broadcast coroutines suspended in an await
  active,     \* ConnectionManager._active
  ws,         \* per websocket: where its websocket_endpoint handler is
  broken,     \* websockets whose peer is gone: a send to them raises
  recv,       \* per websocket: the messages its client has received
  reg,        \* per websocket: what was true when it was registered
  bcast,      \* the broadcast call being watched: its registry, its outcome
  status,     \* the body of the last GET /status response
  stopped,    \* the shutdown handler has run: the monitors' _stop is set
  held,       \* what a caller of DebuggerEngine.snapshot got, and saw in it
  api,        \* the direct engine call being watched: its argument, the
              \* snapshot before it
  engine,     \* the engine a server holds, as the event loop its _loop is:
              \* None until a server is started
  mon,        \* per monitor: its _thread, its _stop event, the live threads
  poll,       \* GPIOMonitor: its _last_values, where _loop is, the backend
  client      \* per websocket: the texts its handler got from receive_text

vars == <<settings, snapshot, thr, netPos, nCalls, loopQueue, tasks,
          active, ws, broken, recv, reg, bcast, status, stopped, held, api,
          engine, mon, poll, client>>

prodVars == <<snapshot, thr, netPos, nCalls, loopQueue>>
hubVars == <<tasks, active, ws, broken, recv, reg>>
monVars == <<mon, poll>>
auxVars == <<stopped, held, api, engine, mon, poll, client>>

(***************************************************************************)
(* Bounds of the model.                                                    *)
(***************************************************************************)
\* update calls begun in a run of the producers
MaxUpdates == 3
\* update calls begun in a run with websockets
MaxHubUpdates == 1
\* websockets registered when a lone broadcast starts
MaxRegistry == 5
\* the latest tick of the clock a reading is stamped with
MaxTime == 2
\* start() and stop() calls made on the monitors, all together
MaxMonitorCalls == 4
\* texts a client sends on its websocket
MaxClientMessages == 2
\* websockets of the registry whose disconnect calls are watched
MaxPruneRegistry == 2

None == <<>>
Some(v) == <<v>>
Val(o) == o[1]

(***************************************************************************)
(* config.py: DebuggerSettings.                                            *)
(***************************************************************************)
DefaultCpuTempThresholdC == 80000000
DefaultDiskUsageThresholdPercent == 90000000
DefaultMemoryUsageThresholdPercent == 90000000
DefaultWifiSignalThresholdDbm == -75

DebuggerSettings ==
  [gpio_enabled |-> TRUE, wifi_enabled |-> TRUE, bluetooth_enabled |-> TRUE,
   system_health_enabled |-> TRUE,
   cpu_temp_threshold_c |-> DefaultCpuTempThresholdC,
   disk_usage_threshold_percent |-> DefaultDiskUsageThresholdPercent,
   memory_usage_threshold_percent |-> DefaultMemoryUsageThresholdPercent,
   wifi_signal_threshold_dbm |-> DefaultWifiSignalThresholdDbm]

\* The settings of tests/test_engine.py: one threshold changed at a time.
TestSettings ==
  { DebuggerSettings,
    [DebuggerSettings EXCEPT !.cpu_temp_threshold_c = 70000000],
    [DebuggerSettings EXCEPT !.disk_usage_threshold_percent = 80000000],
    [DebuggerSettings EXCEPT !.memory_usage_threshold_percent = 80000000],
    [DebuggerSettings EXCEPT !.wifi_signal_threshold_dbm = -70] }

(***************************************************************************)
(* models.py: the readings.                                                *)
(***************************************************************************)
HealthSummary ==
  [cpu_hot |-> FALSE, disk_low |-> FALSE, memory_high |-> FALSE,
   wifi_poor |-> FALSE]

GPIOState(pin, value, label) ==
  [pin |-> pin, value |-> value, label |-> label, mode |-> "in",
   pull |-> "none", timestamp |-> 0]

WiFiStatus(connected, signal) ==
  [connected |-> connected, signal_level_dbm |-> signal, timestamp |-> 0]

BluetoothStatus(powered, connected) ==
  [powered |-> powered, connected |-> connected, timestamp |-> 0]

SystemHealth(cpu_temp, disk, mem) ==
  [cpu_temp_c |-> cpu_temp, disk_used_percent |-> disk, memory_percent |-> mem,
   timestamp |-> 0]

CustomEntry(name, payload) ==
  [name |-> name, payload |-> payload, timestamp |-> 0]

\* A reading constructed with an explicit timestamp, or when the clock
\* shows time.
At(reading, time) == [reading EXCEPT !.timestamp = time]

DebuggerMessage(type, data, seq) == [type |-> type, data |-> data, seq |-> seq]

\* A variant: the snapshot is created with a flag raised.
DebuggerSnapshotFlagged ==
  [gpio |-> <<>>, wifi |-> None, bluetooth |-> None, system |-> None,
   custom |-> <<>>, interfaces |-> <<>>,
   health |-> [HealthSummary EXCEPT !.disk_low = TRUE],
   gpio_schema |-> <<>>, board |-> Some("board"), app |-> "0.1.0"]

DebuggerSnapshot ==
  [gpio |-> <<>>, wifi |-> None, bluetooth |-> None, system |-> None,
   custom |-> <<>>, interfaces |-> <<>>, health |-> HealthSummary,
   gpio_schema |-> <<>>, board |-> Some("board"), app |-> "0.1.0"]

(***************************************************************************)
(* engine.py: _update_health_summary, one definition per check.  Each      *)
(* takes the local HealthSummary built so far and the snapshot as it is    *)
(* when the statement runs.                                                *)
(***************************************************************************)
CpuTempLimit == 80000000
DiskUsedLimit == 90000000
MemoryLimit == 90000000
WifiSignalLimit == -75

CheckCpuAtOrAbove(health, snap) ==
  IF snap.system # None /\ Val(snap.system).cpu_temp_c # None
  THEN [health EXCEPT !.cpu_hot = Val(Val(snap.system).cpu_temp_c) >= CpuTempLimit]
  ELSE health

CheckCpu(health, snap) ==
  IF snap.system # None /\ Val(snap.system).cpu_temp_c # None
  THEN [health EXCEPT !.cpu_hot = Val(Val(snap.system).cpu_temp_c) > CpuTempLimit]
  ELSE health

CheckDisk(health, snap) ==
  IF snap.system # None
  THEN [health EXCEPT !.disk_low = Val(snap.system).disk_used_percent > DiskUsedLimit]
  ELSE health

CheckMemory(health, snap) ==
  IF snap.system # None /\ Val(snap.system).memory_percent # None
  THEN [health EXCEPT !.memory_high = Val(Val(snap.system).memory_percent) > MemoryLimit]
  ELSE health

CheckWifi(health, snap) ==
  IF snap.wifi # None /\ Val(snap.wifi).signal_level_dbm # None
  THEN [health EXCEPT !.wifi_poor = Val(Val(snap.wifi).signal_level_dbm) < WifiSignalLimit]
  ELSE health

(***************************************************************************)
(* The readings the producers submit.                                      *)
(***************************************************************************)
Pins == {17}
LabelOf(pin) == IF pin = 17 THEN Some("LED") ELSE None
GpioStates == { GPIOState(p, v, LabelOf(p)) : p \in Pins, v \in {0, 1} }

WifiStatuses ==
  { WiFiStatus(FALSE, None), WiFiStatus(TRUE, Some(-75)), WiFiStatus(TRUE, Some(-76)) }

BluetoothStatuses == { BluetoothStatus(TRUE, FALSE) }

\* Around every limit: absent, just below it, exactly at it, just above it.
SystemSamples ==
  { SystemHealth(c, d, m) :
      c \in {None, Some(79999999), Some(80000000), Some(80000001)},
      d \in {90000000, 90000001},
      m \in {None, Some(90000000), Some(90000001)} }

\* The samples of the concurrent runs: one hot, one cool.
FewSystemSamples ==
  { SystemHealth(Some(85000000), 50000000, None),
    SystemHealth(None, 50000000, Some(95000000)) }

FewWifiStatuses == { WiFiStatus(TRUE, Some(-60)), WiFiStatus(TRUE, Some(-80)) }

InterfaceLists ==
  { <<>>, <<[name |-> "wlan0", is_up |-> TRUE]>> }

CustomNames == {"my_app"}
CustomPayloads == {"running"}

(***************************************************************************)
(* Producer threads.  gpio: GPIOMonitor._loop; net: NetworkMonitor._loop;  *)
(* sys: SystemMonitor._loop; app: an application thread calling            *)
(* push_custom.                                                            *)
(***************************************************************************)
Threads == {"gpio", "net", "sys", "app"}

Idle ==
  [pc |-> "idle", kind |-> "none", arg |-> None, health |-> HealthSummary,
   seq |-> 0]

InCall(t) == thr[t].pc # "idle"

\* A call that has run its first statement and goes on at pc.
Entered(kind, arg, pc) ==
  [pc |-> pc, kind |-> kind, arg |-> Some(arg), health |-> HealthSummary,
   seq |-> nCalls + 1]

\* A variant: an entry that exists is kept.
UpsertKeepFirst(dict, key, value) == dict @@ (key :> value)

\* dict[key] = value
Upsert(dict, key, value) == (key :> value) @@ dict

\* A variant: the reading is stamped again when it is stored.
UpdateGpioRestamped(t, state) ==
  /\ thr[t].pc = "idle"
  /\ snapshot' = [snapshot EXCEPT
                    !.gpio = Upsert(@, state.pin, At(state, nCalls + 1))]
  /\ thr' = [thr EXCEPT ![t] = Entered("gpio", state, "schedule")]
  /\ nCalls' = nCalls + 1
  /\ UNCHANGED loopQueue

\* engine.py:82
UpdateGpio(t, state) ==
  /\ thr[t].pc = "idle"
  /\ snapshot' = [snapshot EXCEPT !.gpio = Upsert(@, state.pin, state)]
  /\ thr' = [thr EXCEPT ![t] = Entered("gpio", state, "schedule")]
  /\ nCalls' = nCalls + 1
  /\ UNCHANGED loopQueue

\* engine.py:88, and _update_health_summary up to health = HealthSummary()
UpdateWifi(t, wifi) ==
  /\ thr[t].pc = "idle"
  /\ snapshot' = [snapshot EXCEPT !.wifi = Some(wifi)]
  /\ thr' = [thr EXCEPT ![t] = Entered("wifi", wifi, "health_cpu")]
  /\ nCalls' = nCalls + 1
  /\ UNCHANGED loopQueue

\* A variant: the method starts the health summary afresh.
UpdateBluetoothFreshHealth(t, bt) ==
  /\ thr[t].pc = "idle"
  /\ snapshot' = [snapshot EXCEPT !.bluetooth = Some(bt),
                                  !.health = HealthSummary]
  /\ thr' = [thr EXCEPT ![t] = Entered("bluetooth", bt, "schedule")]
  /\ nCalls' = nCalls + 1
  /\ UNCHANGED loopQueue

\* engine.py:95
UpdateBluetooth(t, bt) ==
  /\ thr[t].pc = "idle"
  /\ snapshot' = [snapshot EXCEPT !.bluetooth = Some(bt)]
  /\ thr' = [thr EXCEPT ![t] = Entered("bluetooth", bt, "schedule")]
  /\ nCalls' = nCalls + 1
  /\ UNCHANGED loopQueue

\* engine.py:101, and _update_health_summary up to health = HealthSummary()
UpdateSystem(t, health) ==
  /\ thr[t].pc = "idle"
  /\ snapshot' = [snapshot EXCEPT !.system = Some(health)]
  /\ thr' = [thr EXCEPT ![t] = Entered("system", health, "health_cpu")]
  /\ nCalls' = nCalls + 1
  /\ UNCHANGED loopQueue

\* A variant: a per-interface merge, the interfaces missing from the new
\* list being kept.
UpdateInterfacesMerged(t, interfaces) ==
  /\ thr[t].pc = "idle"
  /\ LET Missing(old) == \A i \in 1 .. Len(interfaces) : interfaces[i].name # old.name
     IN snapshot' = [snapshot EXCEPT
                       !.interfaces = interfaces \o SelectSeq(@, Missing)]
  /\ nCalls' = nCalls + 1
  /\ UNCHANGED <<thr, loopQueue>>

\* engine.py:107-109: the whole method; nothing is scheduled
UpdateInterfaces(t, interfaces) ==
  /\ thr[t].pc = "idle"
  /\ snapshot' = [snapshot EXCEPT !.interfaces = interfaces]
  /\ nCalls' = nCalls + 1
  /\ UNCHANGED <<thr, loopQueue>>

\* engine.py:122-123
PushCustom(t, name, payload) ==
  /\ thr[t].pc = "idle"
  /\ LET entry == CustomEntry(name, payload) IN
       /\ snapshot' = [snapshot EXCEPT !.custom = Upsert(@, name, entry)]
       /\ thr' = [thr EXCEPT ![t] = Entered("custom", entry, "schedule")]
  /\ nCalls' = nCalls + 1
  /\ UNCHANGED loopQueue

\* One check of _update_health_summary on the snapshot as it is now; the
\* result stays in the thread's local HealthSummary.
\* engine.py:162-164
HealthCpu(t) ==
  /\ thr[t].pc = "health_cpu"
  /\ thr' = [thr EXCEPT ![t].health = CheckCpu(@, snapshot),
                        ![t].pc = "health_disk"]
  /\ UNCHANGED <<snapshot, nCalls, loopQueue>>

\* engine.py:166-168
HealthDisk(t) ==
  /\ thr[t].pc = "health_disk"
  /\ thr' = [thr EXCEPT ![t].health = CheckDisk(@, snapshot),
                        ![t].pc = "health_mem"]
  /\ UNCHANGED <<snapshot, nCalls, loopQueue>>

\* engine.py:170-172
HealthMemory(t) ==
  /\ thr[t].pc = "health_mem"
  /\ thr' = [thr EXCEPT ![t].health = CheckMemory(@, snapshot),
                        ![t].pc = "health_wifi"]
  /\ UNCHANGED <<snapshot, nCalls, loopQueue>>

\* engine.py:174-175
HealthWifi(t) ==
  /\ thr[t].pc = "health_wifi"
  /\ thr' = [thr EXCEPT ![t].health = CheckWifi(@, snapshot),
                        ![t].pc = "health_store"]
  /\ UNCHANGED <<snapshot, nCalls, loopQueue>>

\* engine.py:177
HealthStore(t) ==
  /\ thr[t].pc = "health_store"
  /\ snapshot' = [snapshot EXCEPT !.health = thr[t].health]
  /\ thr' = [thr EXCEPT ![t].pc = "schedule"]
  /\ UNCHANGED <<nCalls, loopQueue>>

\* A variant: the type of update_gpio's message pasted into every method.
UpdateMessageGpioType(kind, arg, seq) == DebuggerMessage("gpio", arg, seq)

\* The message an update method builds for its reading (engine.py:84, 91,
\* 97, 104, 125); seq, the order of application, is not part of the payload.
UpdateMessage(kind, arg, seq) == DebuggerMessage(kind, arg, seq)

\* A variant: the method waits for the loop to be free of suspended
\* broadcasts before it hands over its own and returns.
ScheduleBroadcastWhenDelivered(t) ==
  /\ thr[t].pc = "schedule"
  /\ tasks = {}
  /\ loopQueue' = Append(loopQueue,
                         UpdateMessage(thr[t].kind, Val(thr[t].arg), thr[t].seq))
  /\ thr' = [thr EXCEPT ![t] = Idle]
  /\ UNCHANGED <<snapshot, nCalls>>

\* _schedule_broadcast: run_coroutine_threadsafe queues the coroutine on the
\* loop; the update method then returns.
ScheduleBroadcast(t) ==
  /\ thr[t].pc = "schedule"
  /\ loopQueue' = Append(loopQueue,
                         UpdateMessage(thr[t].kind, Val(thr[t].arg), thr[t].seq))
  /\ thr' = [thr EXCEPT ![t] = Idle]
  /\ UNCHANGED <<snapshot, nCalls>>

(***************************************************************************)
(* The monitor loops and the application thread.                           *)
(***************************************************************************)
\* gpio_monitor.py:81-95 through app.py:41-42
GpioMonitorLoop(cap) ==
  /\ settings.gpio_enabled
  /\ ~stopped
  /\ nCalls < cap
  /\ \E state \in GpioStates : UpdateGpio("gpio", state)
  /\ UNCHANGED netPos

\* network_monitor.py:42
NetworkMonitorWifi(cap, statuses) ==
  /\ settings.wifi_enabled \/ settings.bluetooth_enabled
  /\ ~stopped
  /\ nCalls < cap
  /\ netPos = "wifi"
  /\ \E wifi \in statuses : UpdateWifi("net", wifi)
  /\ netPos' = "bluetooth"

\* network_monitor.py:43
NetworkMonitorBluetooth(cap) ==
  /\ nCalls < cap
  /\ netPos = "bluetooth"
  /\ \E bt \in BluetoothStatuses : UpdateBluetooth("net", bt)
  /\ netPos' = "interfaces"

\* network_monitor.py:44-45
NetworkMonitorInterfaces(cap) ==
  /\ nCalls < cap
  /\ netPos = "interfaces"
  /\ \E interfaces \in InterfaceLists : UpdateInterfaces("net", interfaces)
  /\ netPos' = "wifi"

\* system_monitor.py:39-42
SystemMonitorLoop(cap, samples) ==
  /\ settings.system_health_enabled
  /\ ~stopped
  /\ nCalls < cap
  /\ \E health \in samples : UpdateSystem("sys", health)
  /\ UNCHANGED netPos

\* __init__.py:23-33
AppPushCustom(cap) ==
  /\ nCalls < cap
  /\ \E name \in CustomNames, payload \in CustomPayloads :
        PushCustom("app", name, payload)
  /\ UNCHANGED netPos

\* A thread inside an update method runs its next statement.
ThreadStep(t) ==
  /\ \/ HealthCpu(t)
     \/ HealthDisk(t)
     \/ HealthMemory(t)
     \/ HealthWifi(t)
     \/ HealthStore(t)
     \/ ScheduleBroadcast(t)
  /\ UNCHANGED netPos

\* Thread t returns from an update call in this step: it runs the last
\* statement of the method, or, in the network monitor, the one statement of
\* update_interfaces.
Returns(t) ==
  \/ thr[t].pc # "idle" /\ thr'[t].pc = "idle"
  \/ t = "net" /\ netPos = "interfaces" /\ netPos' = "wifi"

\* The messages this step hands to the loop.
Queued == SubSeq(loopQueue', Len(loopQueue) + 1, Len(loopQueue'))

\* app.py:104-110
GetStatus ==
  /\ status' = Some(snapshot)
  /\ UNCHANGED <<settings, prodVars, hubVars, bcast, auxVars>>

\* DebuggerEngine.snapshot (engine.py:75-77): the caller is handed the
\* object self._snapshot names, not a copy of it.  seen is what the object
\* held when it was handed out.
SnapshotProperty ==
  /\ held' = Some([ref |-> "_snapshot", seen |-> snapshot])
  /\ UNCHANGED <<settings, prodVars, hubVars, bcast, status, stopped, api, engine, monVars, client>>

\* What a holder reads through its reference now.
View(h) == IF h.ref = "_snapshot" THEN snapshot ELSE h.seen

(***************************************************************************)
(* engine.py: ConnectionManager, and app.py: websocket_endpoint.           *)
(***************************************************************************)
Range(list) == { list[i] : i \in 1 .. Len(list) }

\* list.remove(x): the first occurrence goes
RemoveFirst(list, x) ==
  LET i == CHOOSE k \in 1 .. Len(list) :
             list[k] = x /\ \A j \in 1 .. (k - 1) : list[j] # x
  IN SubSeq(list, 1, i - 1) \o SubSeq(list, i + 1, Len(list))

\* list.remove(x), with whether it raised: ValueError when x is not there
ListRemove(list, x) ==
  IF x \in Range(list)
  THEN [list |-> RemoveFirst(list, x), raised |-> FALSE]
  ELSE [list |-> list, raised |-> TRUE]

\* disconnect without the membership test
DisconnectCallUnguarded(list, websocket) == ListRemove(list, websocket)

\* disconnect that leaves the removal for later
DisconnectCallDeferred(list, websocket) == [list |-> list, raised |-> FALSE]

\* engine.py:35-37: the registry disconnect leaves, and whether it raised
DisconnectCall(list, websocket) ==
  IF websocket \in Range(list) THEN ListRemove(list, websocket)
  ELSE [list |-> list, raised |-> FALSE]

\* engine.py:35-37: the registry disconnect leaves
Disconnect(list, websocket) == DisconnectCall(list, websocket).list

\* engine.py:47-48
RECURSIVE Prune(_, _)
Prune(list, to_remove) ==
  IF to_remove = <<>> THEN list
  ELSE Prune(Disconnect(list, Head(to_remove)), Tail(to_remove))

\* app.py:120-124
SnapshotMessage(snap) == [type |-> "snapshot", data |-> snap, seq |-> 0]

\* What ws.send_json(payload) does to the clients' inboxes: nothing when the
\* peer is gone (the call raises), else the message arrives.
SendJson(inboxes, websocket, m) ==
  IF websocket \in broken THEN inboxes
  ELSE [inboxes EXCEPT ![websocket] = Append(@, m)]

\* engine.py:43-46: the try/except around one send
TrySend(to_remove, websocket) ==
  IF websocket \in broken THEN Append(to_remove, websocket) ELSE to_remove

\* A client opens /ws: its handler starts and suspends in
\* await websocket.accept() (app.py:113-116, engine.py:32).
WsConnect(o) ==
  /\ ws[o] = "idle"
  /\ ws' = [ws EXCEPT ![o] = "accepting"]
  /\ UNCHANGED <<tasks, active, broken, recv, reg>>

\* accept() raises: connect() does not return and the handler ends.
WsAcceptFails(o) ==
  /\ ws[o] = "accepting"
  /\ o \in broken
  /\ ws' = [ws EXCEPT ![o] = "closed"]
  /\ UNCHANGED <<tasks, active, broken, recv, reg>>

\* A variant: the handler registers the websocket and sends it no snapshot.
WsRegisterNoSnapshot(o) ==
  /\ ws[o] = "accepting"
  /\ o \notin broken
  /\ active' = Append(active, o)
  /\ reg' = [reg EXCEPT ![o] = Some([seq |-> nCalls, snap |-> snapshot])]
  /\ ws' = [ws EXCEPT ![o] = "open"]
  /\ UNCHANGED <<tasks, broken, recv>>

\* accept() returns: the websocket is appended (engine.py:33) and the
\* snapshot is sent to it (app.py:119-124) with no await in between.
WsRegister(o) ==
  /\ ws[o] = "accepting"
  /\ o \notin broken
  /\ active' = Append(active, o)
  /\ recv' = SendJson(recv, o, SnapshotMessage(snapshot))
  /\ reg' = [reg EXCEPT ![o] = Some([seq |-> nCalls, snap |-> snapshot])]
  /\ ws' = [ws EXCEPT ![o] = "open"]
  /\ UNCHANGED <<tasks, broken>>

\* The same, but the peer goes before the snapshot is sent: the send
\* raises, app.py:125-127 unregisters and the handler returns.
WsRegisterSendFails(o) ==
  /\ ws[o] = "accepting"
  /\ o \notin broken
  /\ broken' = broken \cup {o}
  /\ active' = Disconnect(Append(active, o), o)
  /\ ws' = [ws EXCEPT ![o] = "closed"]
  /\ UNCHANGED <<tasks, recv, reg>>

\* The peer of a websocket goes away.
ClientDrop(o) ==
  /\ ws[o] \in {"accepting", "open"}
  /\ o \notin broken
  /\ broken' = broken \cup {o}
  /\ UNCHANGED <<tasks, active, ws, recv, reg>>

\* receive_text() raises WebSocketDisconnect (app.py:136-137).
WsDisconnect(o) ==
  /\ ws[o] = "open"
  /\ o \in broken
  /\ active' = Disconnect(active, o)
  /\ ws' = [ws EXCEPT ![o] = "closed"]
  /\ UNCHANGED <<tasks, broken, recv, reg>>

\* websocket.send_text(text): a text frame in the client's inbox
TextFrame(text) == [type |-> "text", data |-> [text |-> text], seq |-> 0]

\* What clients send: the heartbeat and anything else.
ClientTexts == {"ping", "status"}

\* A variant of the receive loop that answers every message.
WsReceiveTextEcho(o, text) ==
  /\ ws[o] = "open"
  /\ o \notin broken
  /\ client' = [client EXCEPT ![o] = Append(@, text)]
  /\ recv' = SendJson(recv, o, TextFrame("pong"))
  /\ UNCHANGED <<tasks, active, ws, broken, reg>>

\* app.py:129-135: receive_text() returns a text; "ping" is answered with
\* send_text("pong"), which hands the frame over when it is called; the
\* handler is then back at receive_text().
WsReceiveText(o, text) ==
  /\ ws[o] = "open"
  /\ text = "ping" => o \notin broken
  /\ client' = [client EXCEPT ![o] = Append(@, text)]
  /\ recv' = IF text = "ping" THEN SendJson(recv, o, TextFrame("pong"))
             ELSE recv
  /\ UNCHANGED <<tasks, active, ws, broken, reg>>

\* app.py:134-137: receive_text() returns a "ping" the peer sent before it
\* went, and send_text raises.  A WebSocketDisconnect is caught and the
\* websocket unregistered; any other exception ends the handler with the
\* websocket still in _active.
WsPongRaises(o) ==
  /\ ws[o] = "open"
  /\ o \in broken
  /\ client' = [client EXCEPT ![o] = Append(@, "ping")]
  /\ ws' = [ws EXCEPT ![o] = "closed"]
  /\ \/ active' = Disconnect(active, o)
     \/ active' = active
  /\ UNCHANGED <<tasks, broken, recv, reg>>

\* app.py:130-137: the client sends a binary frame.  receive_text() finds
\* no text in it and raises KeyError, which the handler does not catch: the
\* handler ends with the websocket still in _active and the server closes
\* the connection.
WsReceiveBytes(o) ==
  /\ ws[o] = "open"
  /\ o \notin broken
  /\ ws' = [ws EXCEPT ![o] = "closed"]
  /\ broken' = broken \cup {o}
  /\ UNCHANGED <<tasks, active, recv, reg, client>>

\* The two ways the server is started: the command line (__main__.py:137-
\* 145) and start_debugger_server (server.py:59-69).
StartModes == {"cli", "thread"}

\* engine.py:61: asyncio.get_event_loop() at the moment create_app builds
\* the engine.  uvicorn.run(..., factory=True) calls create_app from inside
\* its running loop, the one that serves the websockets; start_debugger_server
\* calls it in the caller's thread, before the thread of the server exists,
\* and gets the loop of the caller's thread, which the server never runs.
GetEventLoop(mode) == IF mode = "cli" THEN "server" ELSE "caller"

\* The loop that serves the websockets runs what the engine hands to its
\* _loop only when the two are the same loop.
LoopRuns == engine = Some("server")

\* A broadcast coroutine in its for loop: idx elements of _active consumed.
BroadcastTask(m, idx, to_remove) ==
  [msg |-> m, idx |-> idx, to_remove |-> to_remove]

\* The loop starts the oldest queued broadcast (engine.py:40-44): it runs
\* to its first await, the send to the first websocket of _active.
StartBroadcast ==
  /\ LoopRuns
  /\ loopQueue # <<>>
  /\ loopQueue' = Tail(loopQueue)
  /\ LET m == Head(loopQueue) IN
       IF active = <<>>
       THEN UNCHANGED <<tasks, recv>>
       ELSE /\ recv' = SendJson(recv, active[1], m)
            /\ tasks' = tasks \cup
                 { BroadcastTask(m, 1, TrySend(<<>>, active[1])) }
  /\ UNCHANGED <<active, ws, broken, reg>>

\* A variant without the try/except: a send that raises ends the coroutine.
BroadcastNextUncaught(b) ==
  /\ b \in tasks
  /\ b.idx < Len(active)
  /\ LET o == active[b.idx + 1] IN
       /\ recv' = SendJson(recv, o, b.msg)
       /\ tasks' = IF o \in broken THEN tasks \ {b}
                   ELSE (tasks \ {b}) \cup
                          { BroadcastTask(b.msg, b.idx + 1, b.to_remove) }
  /\ UNCHANGED <<loopQueue, active, ws, broken, reg>>

\* A suspended broadcast resumes and the list iterator yields the next
\* websocket of _active as it is now (engine.py:42-46).
BroadcastNext(b) ==
  /\ b \in tasks
  /\ b.idx < Len(active)
  /\ LET o == active[b.idx + 1] IN
       /\ recv' = SendJson(recv, o, b.msg)
       /\ tasks' = (tasks \ {b}) \cup
            { BroadcastTask(b.msg, b.idx + 1, TrySend(b.to_remove, o)) }
  /\ UNCHANGED <<loopQueue, active, ws, broken, reg>>

\* The iterator is exhausted: the failed websockets are unregistered and
\* broadcast returns (engine.py:47-48).
BroadcastFinish(b) ==
  /\ b \in tasks
  /\ b.idx >= Len(active)
  /\ active' = Prune(active, b.to_remove)
  /\ tasks' = tasks \ {b}
  /\ UNCHANGED <<loopQueue, ws, broken, recv, reg>>

(***************************************************************************)
(* gpio_monitor.py, network_monitor.py, system_monitor.py: start(), stop()  *)
(* and the polling threads.  The three monitors share the code of start()   *)
(* and stop(); GPIOMonitor also sets its pins up and cleans its backend up. *)
(* A thread is named by the number of the Thread object, per monitor.       *)
(* stop() joins for at most one second: the thread it joined may or may     *)
(* not have exited when it returns, so the exit is a step of its own.       *)
(***************************************************************************)
Monitors == {"gpio", "net", "sys"}

\* __init__ of the three monitors: _thread = None, _stop = threading.Event().
\* body is the threads that are past the while test of _loop, in its body;
\* polled is whether the monitor has polled since the last start() call;
\* late is whether a callback was invoked while the last call was a stop()
\* that had returned.
MonitorCreated ==
  [thread |-> None, stop |-> FALSE, alive |-> {}, made |-> 0, last |-> "none",
   calls |-> 0, body |-> {}, polled |-> FALSE, late |-> FALSE]

\* tests/test_gpio_monitor.py:98-104: the pins and the labels of the monitor
MonitorPins == <<17, 27>>
MonitorLabel(pin) == IF pin = 17 THEN Some("LED") ELSE Some("Button")

\* The names a GPIOMonitor is asked for its backend by; "pigpio" stands
\* for every name the code does not know.
BackendNames == {"mock", "rpi", "gpiozero", "auto", "pigpio"}
Backends == {"mock", "rpi", "gpiozero"}

\* _create_backend with no fallback for "rpi"
CreateBackendAsNamed(backend_name, rpi_gpio, gpiozero_available) ==
  IF backend_name \in Backends THEN backend_name
  ELSE IF rpi_gpio THEN "rpi"
  ELSE IF gpiozero_available THEN "gpiozero"
  ELSE "mock"

\* gpio_monitor.py:35-63.  rpi_gpio is RPiGPIOBackend()._gpio is not None
\* (gpio_backend.py:52-59), gpiozero_available is GPIOZeroBackend()._available
\* (gpio_backend.py:93-104).
CreateBackend(backend_name, rpi_gpio, gpiozero_available) ==
  IF backend_name = "mock" THEN "mock"
  ELSE IF backend_name = "rpi"
       THEN (IF rpi_gpio THEN "rpi" ELSE "mock")
  ELSE IF backend_name = "gpiozero"
       THEN (IF gpiozero_available THEN "gpiozero" ELSE "mock")
  ELSE IF rpi_gpio THEN "rpi"
  ELSE IF gpiozero_available THEN "gpiozero"
  ELSE "mock"

\* GPIOMonitor.__init__ (gpio_monitor.py:18-33): nothing read yet.  pos is,
\* per thread, the index in _pins of the pin _loop reads next, 0 at the
\* while test; setup is whether the backend has its pins set up; collected
\* is what on_change was given since the last start() of a monitor that
\* was not running; made_with is what the backend was chosen from, when
\* that is watched; event is the latest read, its pin, its value and
\* whether on_change was called for it; reported is, per pin, the value
\* on_change was last given; late_read is whether the backend was read
\* while its pins were not set up.
GpioMonitor(backend, made_with) ==
  [last_values |-> [i \in DOMAIN MonitorPins |-> None], pos |-> <<>>,
   setup |-> FALSE, collected |-> {}, backend |-> backend,
   made_with |-> made_with, event |-> None,
   reported |-> [i \in DOMAIN MonitorPins |-> None], late_read |-> FALSE]

\* tests/test_gpio_monitor.py: the monitor of the tests, backend="mock"
GpioMonitorCreated == GpioMonitor("mock", None)

\* No GPIOMonitor has been constructed yet.
NoGpioMonitor == GpioMonitor("none", None)

\* GPIOMonitor(pins, label_map, interval_s, on_change, backend_name) on a
\* machine where the two libraries are or are not there
ConstructGpioMonitor(backend_name, rpi_gpio, gpiozero_available) ==
  /\ poll.backend = "none"
  /\ poll' = GpioMonitor(
               CreateBackend(backend_name, rpi_gpio, gpiozero_available),
               Some([backend_name |-> backend_name, rpi_gpio |-> rpi_gpio,
                     gpiozero_available |-> gpiozero_available]))
  /\ UNCHANGED mon

\* self._thread and self._thread.is_alive()
ThreadAlive(monitor) ==
  monitor.thread # None /\ Val(monitor.thread) \in monitor.alive

\* calls is the number of start() and stop() calls made on the monitor,
\* last the later of them
MonitorCalls == mon["gpio"].calls + mon["net"].calls + mon["sys"].calls

\* gpio_monitor.py:68-73, network_monitor.py:31-33, system_monitor.py:31-33:
\* the pins are set up, _stop is cleared, a new thread is started
ThreadStarted(monitor) ==
  [thread |-> Some(monitor.made + 1), stop |-> FALSE,
   alive |-> monitor.alive \cup {monitor.made + 1},
   made |-> monitor.made + 1, last |-> "start", calls |-> monitor.calls + 1,
   body |-> monitor.body, polled |-> FALSE, late |-> monitor.late]

PinsSetUp(p) ==
  [p EXCEPT !.setup = TRUE, !.pos = Append(@, 0), !.collected = {}]

MonitorRun(m) ==
  /\ mon' = [mon EXCEPT ![m] = ThreadStarted(@)]
  /\ poll' = IF m = "gpio" THEN PinsSetUp(poll) ELSE poll

\* start() that does not look at the thread it has
MonitorStartUnguarded(m) == MonitorRun(m)

\* gpio_monitor.py:65-73, network_monitor.py:28-33, system_monitor.py:28-33
MonitorStart(m) ==
  IF ThreadAlive(mon[m])
  THEN /\ mon' = [mon EXCEPT ![m].last = "start", ![m].calls = @ + 1,
                              ![m].polled = FALSE]
       /\ poll' = IF m = "gpio" /\ mon[m].stop
                  THEN [poll EXCEPT !.collected = {}]
                  ELSE poll
  ELSE MonitorRun(m)

\* gpio_monitor.py:75-79, network_monitor.py:35-38, system_monitor.py:35-38
MonitorStop(m) ==
  /\ mon' = [mon EXCEPT ![m].stop = TRUE, ![m].last = "stop",
                         ![m].calls = @ + 1]
  /\ poll' = IF m = "gpio" THEN [poll EXCEPT !.setup = FALSE] ELSE poll

\* the thread's target returns
ThreadExit(m, id) ==
  mon' = [mon EXCEPT ![m].alive = @ \ {id}, ![m].body = @ \ {id}]

\* A callback of the monitor is invoked, or its backend polled.
Polled(m, called) ==
  mon' = [mon EXCEPT ![m].polled = TRUE,
                     ![m].late = @ \/ (called /\ mon[m].last = "stop")]

\* gpio_monitor.py:82: while not self._stop.is_set()
GpioLoopTest(id) ==
  /\ id \in mon["gpio"].alive
  /\ poll.pos[id] = 0
  /\ IF mon["gpio"].stop
     THEN ThreadExit("gpio", id) /\ UNCHANGED poll
     ELSE poll' = [poll EXCEPT !.pos[id] = 1] /\ UNCHANGED mon

\* gpio_backend.py:38-39, 75-78, 130-137: the mock backend reads 0, and so
\* does the gpiozero backend for a pin it has no device for; otherwise the
\* level is what the library gives
BackendRead ==
  IF poll.backend = "mock" THEN {0}
  ELSE IF poll.backend = "gpiozero" /\ ~poll.setup THEN {0}
  ELSE {0, 1}

\* _loop without the comparison with the last value: every read is reported
GpioLoopReadAlways(id) ==
  /\ id \in mon["gpio"].alive
  /\ poll.pos[id] \in DOMAIN MonitorPins
  /\ LET i == poll.pos[id]
         pin == MonitorPins[i]
         next == IF i = Len(MonitorPins) THEN 0 ELSE i + 1
     IN \E value \in BackendRead :
          /\ poll' = [poll EXCEPT
                        !.last_values[i] = Some(value),
                        !.collected =
                           @ \cup {GPIOState(pin, value, MonitorLabel(pin))},
                        !.reported[i] = Some(value),
                        !.event = Some([pin |-> i, value |-> value,
                                        called |-> TRUE]),
                        !.late_read = @ \/ ~poll.setup,
                        !.pos[id] = next]
          /\ Polled("gpio", TRUE)

\* gpio_monitor.py:83-95: one pin of the for loop; after the last pin the
\* thread sleeps and comes back to the while test
GpioLoopRead(id) ==
  /\ id \in mon["gpio"].alive
  /\ poll.pos[id] \in DOMAIN MonitorPins
  /\ LET i == poll.pos[id]
         pin == MonitorPins[i]
         last == poll.last_values[i]
         next == IF i = Len(MonitorPins) THEN 0 ELSE i + 1
     IN \E value \in BackendRead :
          IF last = None \/ Val(last) # value
          THEN /\ poll' = [poll EXCEPT
                            !.last_values[i] = Some(value),
                            !.collected =
                               @ \cup {GPIOState(pin, value, MonitorLabel(pin))},
                            !.reported[i] = Some(value),
                            !.event = Some([pin |-> i, value |-> value,
                                            called |-> TRUE]),
                            !.late_read = @ \/ ~poll.setup,
                            !.pos[id] = next]
               /\ Polled("gpio", TRUE)
          ELSE /\ poll' = [poll EXCEPT
                            !.event = Some([pin |-> i, value |-> value,
                                            called |-> FALSE]),
                            !.late_read = @ \/ ~poll.setup,
                            !.pos[id] = next]
               /\ Polled("gpio", FALSE)

\* gpio_backend.py:78, gpio_monitor.py:84: RPi.GPIO's input() is called for
\* a channel that cleanup() has released; what it then does is the
\* library's business, and when it raises, nothing in _loop catches it
GpioLoopReadRaises(id) ==
  /\ id \in mon["gpio"].alive
  /\ poll.pos[id] \in DOMAIN MonitorPins
  /\ poll.backend = "rpi"
  /\ ~poll.setup
  /\ ThreadExit("gpio", id)
  /\ UNCHANGED poll

\* network_monitor.py:41, system_monitor.py:40: the while test
MonitorLoopTest(m, id) ==
  /\ m # "gpio"
  /\ id \in mon[m].alive \ mon[m].body
  /\ IF mon[m].stop
     THEN ThreadExit(m, id)
     ELSE mon' = [mon EXCEPT ![m].body = @ \cup {id}]
  /\ UNCHANGED poll

\* network_monitor.py:42-46, system_monitor.py:41-42: the status is
\* gathered (commands are run, psutil is asked), the callbacks are invoked,
\* and the thread sleeps and comes back to the while test
MonitorLoopBody(m, id) ==
  /\ m # "gpio"
  /\ id \in mon[m].body
  /\ mon' = [mon EXCEPT ![m].body = @ \ {id}, ![m].polled = TRUE,
                        ![m].late = @ \/ mon[m].last = "stop"]
  /\ UNCHANGED poll

(***************************************************************************)
(* The specifications.                                                     *)
(***************************************************************************)
\* create_app with set_gpio_schema given no labels
EngineCreatedUnlabelled(s) ==
  [DebuggerSnapshot EXCEPT !.gpio_schema =
     IF s.gpio_enabled
     THEN [p \in Pins |-> [pin |-> p, label |-> None, mode |-> "in",
                           pull |-> "none"]]
     ELSE <<>>]

\* app.py:33-52: the engine as create_app leaves it
EngineCreated(s) ==
  [DebuggerSnapshot EXCEPT !.gpio_schema =
     IF s.gpio_enabled
     THEN [p \in Pins |-> [pin |-> p, label |-> LabelOf(p), mode |-> "in",
                           pull |-> "none"]]
     ELSE <<>>]

\* The engine and the monitors as create_app leaves them.
EngineWith(settingsSet, observers) ==
  /\ settings \in settingsSet
  /\ snapshot = EngineCreated(settings)
  /\ thr = [t \in Threads |-> Idle]
  /\ netPos = "wifi"
  /\ nCalls = 0
  /\ loopQueue = <<>>
  /\ tasks = {}
  /\ active = <<>>
  /\ ws = [o \in observers |-> "idle"]
  /\ broken = {}
  /\ recv = [o \in observers |-> <<>>]
  /\ reg = [o \in observers |-> None]
  /\ client = [o \in observers |-> <<>>]
  /\ bcast = None
  /\ status = None
  /\ stopped = FALSE
  /\ held = None
  /\ api = None
  /\ mon = [m \in Monitors |-> MonitorCreated]

\* The same with the GPIOMonitor, before any server holds the engine.
CreatedWith(settingsSet, observers) ==
  /\ EngineWith(settingsSet, observers)
  /\ poll = GpioMonitorCreated

\* The same, served from the command line: the engine was built on the
\* server's loop.
InitWith(settingsSet, observers) ==
  /\ CreatedWith(settingsSet, observers)
  /\ engine = Some(GetEventLoop("cli"))

(***************************************************************************)
(* Spec: the four producer threads, preempting each other at every         *)
(* statement.  No websocket is connected, so the loop's queue only grows.  *)
(***************************************************************************)
Init == InitWith({DebuggerSettings}, {})

Producers ==
  /\ \/ GpioMonitorLoop(MaxUpdates)
     \/ NetworkMonitorWifi(MaxUpdates, FewWifiStatuses)
     \/ NetworkMonitorBluetooth(MaxUpdates)
     \/ NetworkMonitorInterfaces(MaxUpdates)
     \/ SystemMonitorLoop(MaxUpdates, FewSystemSamples)
     \/ AppPushCustom(MaxUpdates)
     \/ \E t \in Threads : ThreadStep(t)
  /\ UNCHANGED <<settings, hubVars, bcast, status, auxVars>>

Next == Producers

Spec == Init /\ [][Next]_vars

(***************************************************************************)
(* StatusSpec: the same, with a client polling GET /status.                *)
(***************************************************************************)
StatusNext == Producers \/ GetStatus

StatusSpec == Init /\ [][StatusNext]_vars

(***************************************************************************)
(* RefSpec: the producers, with a caller that reads DebuggerEngine.snapshot *)
(* and keeps what it got.                                                  *)
(***************************************************************************)
RefNext == Producers \/ SnapshotProperty

RefSpec == Init /\ [][RefNext]_vars

(***************************************************************************)
(* SeqSpec: a sequential run.  An update call begins only when no other    *)
(* call is in progress and the loop has run the broadcast of the previous  *)
(* one (to no websocket); the settings are any of the tests' settings and  *)
(* the samples lie around every limit.  One call more than in Spec, so     *)
(* that the network monitor gets round to a second update_wifi.            *)
(***************************************************************************)
NoCall == \A t \in Threads : ~InCall(t)

Quiet == NoCall /\ loopQueue = <<>>

SeqInit == InitWith(TestSettings, {})

SeqNext ==
  \/ /\ \/ Quiet /\ NetworkMonitorWifi(MaxUpdates + 1, WifiStatuses)
        \/ Quiet /\ NetworkMonitorBluetooth(MaxUpdates + 1)
        \/ Quiet /\ NetworkMonitorInterfaces(MaxUpdates + 1)
        \/ Quiet /\ SystemMonitorLoop(MaxUpdates + 1, SystemSamples)
        \/ \E t \in Threads : ThreadStep(t)
     /\ UNCHANGED <<settings, hubVars, bcast, status, auxVars>>
  \/ /\ StartBroadcast
     /\ UNCHANGED <<settings, snapshot, thr, netPos, nCalls, bcast, status, auxVars>>

SeqSpec == SeqInit /\ [][SeqNext]_vars

(***************************************************************************)
(* HubSpec: the GPIO monitor thread and an application thread feed the     *)
(* engine while websockets connect, drop and are broadcast to.  The        *)
(* network and system monitors are disabled in the settings.               *)
(***************************************************************************)
Observers == {"A", "B"}

HubSettings ==
  [DebuggerSettings EXCEPT !.wifi_enabled = FALSE, !.bluetooth_enabled = FALSE,
                           !.system_health_enabled = FALSE]

HubInit == InitWith({HubSettings}, Observers)

HubProducers(cap) ==
  /\ \/ GpioMonitorLoop(cap)
     \/ AppPushCustom(cap)
     \/ \E t \in Threads : ThreadStep(t)
  /\ UNCHANGED <<settings, hubVars, bcast, status, auxVars>>

Handlers ==
  /\ \/ \E o \in DOMAIN ws : WsConnect(o)
     \/ \E o \in DOMAIN ws : WsAcceptFails(o)
     \/ \E o \in DOMAIN ws : WsRegister(o)
     \/ \E o \in DOMAIN ws : WsRegisterSendFails(o)
     \/ \E o \in DOMAIN ws : ClientDrop(o)
     \/ \E o \in DOMAIN ws : WsDisconnect(o)
  /\ UNCHANGED <<settings, prodVars, bcast, status, auxVars>>

Broadcasts ==
  /\ \/ StartBroadcast
     \/ \E b \in tasks : BroadcastNext(b)
     \/ \E b \in tasks : BroadcastFinish(b)
  /\ UNCHANGED <<settings, snapshot, thr, netPos, nCalls, bcast, status, auxVars>>

HubNext == HubProducers(MaxHubUpdates) \/ Handlers \/ Broadcasts

HubSpec == HubInit /\ [][HubNext]_vars

(***************************************************************************)
(* PingSpec: the producers and the websocket handlers of HubSpec, with      *)
(* clients that send texts on their websockets.  The loop is busy with the  *)
(* handlers: the queued broadcasts wait.                                    *)
(***************************************************************************)
notHubVars == <<settings, prodVars, bcast, status, stopped, held, api, engine,
                monVars>>

\* The texts the handlers have taken, all together.
RECURSIVE Taken(_)
Taken(os) ==
  IF os = {} THEN 0
  ELSE LET o == CHOOSE x \in os : TRUE
       IN Len(client[o]) + Taken(os \ {o})

ClientMessages ==
  /\ Taken(DOMAIN ws) < MaxClientMessages
  /\ \E o \in DOMAIN ws :
       /\ \/ \E text \in ClientTexts : WsReceiveText(o, text)
          \/ WsPongRaises(o)
          \/ WsReceiveBytes(o)
  /\ UNCHANGED notHubVars

PingNext == HubProducers(MaxHubUpdates) \/ Handlers \/ ClientMessages

PingSpec == HubInit /\ [][PingNext]_vars

(***************************************************************************)
(* OrderSpec: HubSpec with room for one more update call, so that two      *)
(* producers can have an update each in flight.                            *)
(***************************************************************************)
OrderNext == HubProducers(MaxHubUpdates + 1) \/ Handlers \/ Broadcasts

OrderSpec == HubInit /\ [][OrderNext]_vars

(***************************************************************************)
(* StallSpec: websockets that never take what is sent to them.  The loop   *)
(* starts every queued broadcast, and each stays suspended in its first    *)
(* send for ever.  The operating system runs every producer thread that    *)
(* has a statement to run; nothing is assumed of the loop.                 *)
(***************************************************************************)
ProducerStep(t) ==
  /\ ThreadStep(t)
  /\ UNCHANGED <<settings, hubVars, bcast, status, auxVars>>

StallHandlers ==
  /\ \/ \E o \in DOMAIN ws : WsConnect(o)
     \/ \E o \in DOMAIN ws : WsRegister(o)
  /\ UNCHANGED <<settings, prodVars, bcast, status, auxVars>>

StallBroadcasts ==
  /\ StartBroadcast
  /\ UNCHANGED <<settings, snapshot, thr, netPos, nCalls, bcast, status, auxVars>>

StallNext == HubProducers(MaxHubUpdates + 1) \/ StallHandlers \/ StallBroadcasts

StallSpec ==
  /\ HubInit
  /\ [][StallNext]_vars
  /\ \A t \in Threads : WF_vars(ProducerStep(t))

(***************************************************************************)
(* SlowSpec: one client, A, never takes what is sent to it: a send to its   *)
(* websocket never completes, and never raises.  The other client is        *)
(* healthy.  Nobody disconnects.  The loop runs every callback that is      *)
(* ready, and the operating system every thread.                            *)
(***************************************************************************)
Stalled == {"A"}

\* engine.py:42-44: a broadcast suspended in a send resumes when the send
\* completes: idx is the number of websockets sent to, the send in flight
\* the one to _active[idx]
SendCompletes(b) == active[b.idx] \notin Stalled

SlowBroadcasts ==
  /\ \/ StartBroadcast
     \/ \E b \in tasks : SendCompletes(b) /\ BroadcastNext(b)
     \/ \E b \in tasks : SendCompletes(b) /\ BroadcastFinish(b)
  /\ UNCHANGED <<settings, snapshot, thr, netPos, nCalls, bcast, status, auxVars>>

SlowNext ==
  \/ HubProducers(MaxHubUpdates + 1)
  \/ StallHandlers
  \/ SlowBroadcasts

SlowSpec ==
  /\ HubInit
  /\ [][SlowNext]_vars
  /\ \A t \in Threads : WF_vars(ProducerStep(t))
  /\ WF_vars(SlowBroadcasts)

(***************************************************************************)
(* ModeSpec: HubSpec's producers and broadcasts with the server started in  *)
(* either of the two ways, and clients that connect and stay.  The          *)
(* operating system runs every producer thread that has a statement to     *)
(* run, and the server's loop runs every handler and every broadcast that   *)
(* is ready on it.                                                          *)
(***************************************************************************)
ModeInit ==
  /\ CreatedWith({HubSettings}, Observers)
  /\ \E mode \in StartModes : engine = Some(GetEventLoop(mode))

ModeNext == HubProducers(MaxHubUpdates + 1) \/ StallHandlers \/ Broadcasts

ModeSpec ==
  /\ ModeInit
  /\ [][ModeNext]_vars
  /\ \A t \in Threads : WF_vars(ProducerStep(t))
  /\ WF_vars(StallHandlers)
  /\ WF_vars(Broadcasts)

(***************************************************************************)
(* LifeSpec: OrderSpec with a shutdown.  DebuggerHandle.stop makes the     *)
(* server run the shutdown handler, which sets every monitor's _stop and   *)
(* joins its thread; it is taken here to find no monitor inside an update  *)
(* call.  The loop runs nothing after the handler; threads go on.          *)
(***************************************************************************)
\* app.py:95-102
Shutdown ==
  /\ ~stopped
  /\ \A t \in {"gpio", "net", "sys"} : ~InCall(t)
  /\ stopped' = TRUE
  /\ UNCHANGED <<settings, prodVars, hubVars, bcast, status, held, api, engine, monVars, client>>

LifeNext ==
  \/ HubProducers(MaxHubUpdates + 1)
  \/ ~stopped /\ Handlers
  \/ ~stopped /\ Broadcasts
  \/ Shutdown

LifeSpec == HubInit /\ [][LifeNext]_vars

(***************************************************************************)
(* BroadcastSpec: ConnectionManager.broadcast on its own.  Up to           *)
(* MaxRegistry websockets are registered, any of them with its peer gone;  *)
(* two messages are queued and the loop runs one broadcast at a time.      *)
(* Peers may go while a broadcast runs; nothing else touches _active.      *)
(***************************************************************************)
\* Up to size websockets are registered, any of them with its peer gone,
\* and two messages are queued.
RegistryInit(size) ==
  /\ settings = HubSettings
  /\ snapshot = EngineCreated(settings)
  /\ thr = [t \in Threads |-> Idle]
  /\ netPos = "wifi"
  /\ nCalls = 2
  /\ loopQueue = << UpdateMessage("gpio", GPIOState(17, 1, LabelOf(17)), 1),
                    UpdateMessage("custom", CustomEntry("my_app", "running"), 2) >>
  /\ tasks = {}
  /\ \E n \in 0 .. size :
       /\ active = [i \in 1 .. n |-> i]
       /\ ws = [o \in 1 .. size |-> IF o <= n THEN "open" ELSE "idle"]
       /\ broken \in SUBSET (1 .. n)
  /\ recv = [o \in 1 .. size |-> <<>>]
  /\ reg = [o \in 1 .. size |-> None]
  /\ client = [o \in 1 .. size |-> <<>>]
  /\ bcast = None
  /\ status = None
  /\ stopped = FALSE
  /\ held = None
  /\ api = None
  /\ mon = [m \in Monitors |-> MonitorCreated]
  /\ poll = GpioMonitorCreated
  /\ engine = Some(GetEventLoop("cli"))

BroadcastInit == RegistryInit(MaxRegistry)

\* What is watched of a broadcast call: the message, _active when it was
\* called, whether it has returned and, once it has, its to_remove.
Watched(m, start, returned, to_remove) ==
  Some([msg |-> m, start |-> start, returned |-> returned,
        to_remove |-> to_remove])

LoneStart ==
  /\ tasks = {}
  /\ StartBroadcast
  /\ bcast' = Watched(Head(loopQueue), active, active = <<>>, <<>>)

LoneNext ==
  /\ \E b \in tasks : BroadcastNext(b)
  /\ UNCHANGED bcast

LoneFinish ==
  /\ \E b \in tasks :
       /\ BroadcastFinish(b)
       /\ bcast' = Watched(b.msg, Val(bcast).start, TRUE, b.to_remove)

LoneDrop ==
  /\ \E o \in Range(active) : ClientDrop(o)
  /\ UNCHANGED <<loopQueue, bcast>>

BroadcastNextStep ==
  /\ LoneStart \/ LoneNext \/ LoneFinish \/ LoneDrop
  /\ UNCHANGED <<settings, snapshot, thr, netPos, nCalls, status, auxVars>>

BroadcastSpec == BroadcastInit /\ [][BroadcastNextStep]_vars

(***************************************************************************)
(* PruneSpec: the registry and the two queued messages of BroadcastSpec,    *)
(* with broadcasts that overlap, handlers that see their client go, and a   *)
(* caller of ConnectionManager.disconnect, as tests/test_engine.py is.      *)
(* Every disconnect call is watched.                                        *)
(***************************************************************************)
\* One disconnect call: its argument, _active before and after it, whether
\* it raised.
CallRecord(list, websocket) ==
  [websocket |-> websocket, before |-> list,
   after |-> DisconnectCall(list, websocket).list,
   raised |-> DisconnectCall(list, websocket).raised]

\* engine.py:47-48: the disconnect calls of the for loop over to_remove
RECURSIVE PruneCalls(_, _)
PruneCalls(list, to_remove) ==
  IF to_remove = <<>> THEN <<>>
  ELSE <<CallRecord(list, Head(to_remove))>>
         \o PruneCalls(Disconnect(list, Head(to_remove)), Tail(to_remove))

\* The websockets a disconnect call has returned for.
Gone == IF api = None THEN {} ELSE Val(api).gone

\* What is watched: the disconnect calls of the latest step that made any,
\* and the websockets disconnect has returned for so far.
WatchCalls(calls) ==
  api' = Some([calls |-> calls,
               gone |-> Gone \cup { calls[i].websocket :
                                      i \in { j \in 1 .. Len(calls) :
                                                ~calls[j].raised } }])

\* manager.disconnect(websocket), called directly
ManagerDisconnect(o) ==
  /\ active' = Disconnect(active, o)
  /\ UNCHANGED <<tasks, ws, broken, recv, reg>>

PruneNext ==
  /\ \/ StartBroadcast /\ UNCHANGED api
     \/ \E b \in tasks : BroadcastNext(b) /\ UNCHANGED api
     \/ \E b \in tasks :
          BroadcastFinish(b) /\ WatchCalls(PruneCalls(active, b.to_remove))
     \/ \E o \in DOMAIN ws : ClientDrop(o) /\ UNCHANGED <<loopQueue, api>>
     \/ \E o \in DOMAIN ws :
          /\ WsDisconnect(o)
          /\ WatchCalls(<<CallRecord(active, o)>>)
          /\ UNCHANGED loopQueue
     \/ \E o \in DOMAIN ws :
          /\ ManagerDisconnect(o)
          /\ WatchCalls(<<CallRecord(active, o)>>)
          /\ UNCHANGED loopQueue
  /\ UNCHANGED <<settings, snapshot, thr, netPos, nCalls, bcast, status,
                 stopped, held, engine, monVars, client>>

PruneInit == RegistryInit(MaxPruneRegistry)

PruneSpec == PruneInit /\ [][PruneNext]_vars

(***************************************************************************)
(* OverlapSpec: the registry and the two queued messages of PruneSpec,      *)
(* with clients that connect and clients that go while broadcasts are      *)
(* suspended in a send.  Each run of broadcast is watched: the websockets   *)
(* that were in _active when it started and have been there ever since.     *)
(***************************************************************************)
RunQueued == [state |-> "queued", stayed |-> {}]

\* The runs of broadcast, by the place of their message in the order.
Runs ==
  IF bcast = None THEN [k \in 1 .. 2 |-> RunQueued] ELSE Val(bcast)

\* One step as the runs see it: the run that starts in it (0 for none, its
\* `for` loop ends at once on an empty _active), the run that returns in
\* it, and the websockets that have left _active.
WatchRuns(started, returned) ==
  bcast' = Some([k \in 1 .. 2 |->
    IF k = started
    THEN [state |-> IF active = <<>> THEN "returned" ELSE "running",
          stayed |-> Range(active)]
    ELSE IF Runs[k].state = "running"
    THEN [state |-> IF k = returned THEN "returned" ELSE "running",
          stayed |-> Runs[k].stayed \cap Range(active')]
    ELSE Runs[k]])

OverlapNext ==
  /\ \/ StartBroadcast /\ WatchRuns(Head(loopQueue).seq, 0)
     \/ \E b \in tasks : BroadcastNext(b) /\ WatchRuns(0, 0)
     \/ \E b \in tasks : BroadcastFinish(b) /\ WatchRuns(0, b.msg.seq)
     \/ \E o \in DOMAIN ws :
          WsConnect(o) /\ WatchRuns(0, 0) /\ UNCHANGED loopQueue
     \/ \E o \in DOMAIN ws :
          WsRegister(o) /\ WatchRuns(0, 0) /\ UNCHANGED loopQueue
     \/ \E o \in DOMAIN ws :
          ClientDrop(o) /\ WatchRuns(0, 0) /\ UNCHANGED loopQueue
     \/ \E o \in DOMAIN ws :
          WsDisconnect(o) /\ WatchRuns(0, 0) /\ UNCHANGED loopQueue
  /\ UNCHANGED <<settings, snapshot, thr, netPos, nCalls, status, auxVars>>

OverlapSpec == PruneInit /\ [][OverlapNext]_vars

(***************************************************************************)
(* ApiSpec: one application thread calls the engine's update methods       *)
(* directly, one call after the other, as tests/test_engine.py does, with  *)
(* readings for two pins and two custom names, stamped with any tick of    *)
(* the clock.  No loop runs: the messages handed to it stay queued.        *)
(***************************************************************************)
ApiPins == {17, 27}

ApiGpioStates ==
  { At(GPIOState(p, v, LabelOf(p)), time) :
      p \in ApiPins, v \in {0, 1}, time \in 1 .. MaxTime }

ApiCustomNames == {"my_app", "sensor"}
ApiCustomPayloads == {"running", "done"}

ApiInterfaceLists ==
  { <<>>,
    <<[name |-> "wlan0", is_up |-> TRUE]>>,
    <<[name |-> "eth0", is_up |-> TRUE], [name |-> "wlan0", is_up |-> TRUE]>> }

\* What is watched of a call: its method, its argument and the snapshot
\* when it was made.
Watch(kind, arg) == Some([kind |-> kind, arg |-> arg, before |-> snapshot])

ApiUpdateGpio ==
  \E state \in ApiGpioStates :
    UpdateGpio("app", state) /\ api' = Watch("gpio", state)

ApiUpdateWifi ==
  \E wifi \in FewWifiStatuses :
    UpdateWifi("app", wifi) /\ api' = Watch("wifi", wifi)

ApiUpdateBluetooth ==
  \E bt \in BluetoothStatuses :
    UpdateBluetooth("app", bt) /\ api' = Watch("bluetooth", bt)

ApiUpdateSystem ==
  \E health \in FewSystemSamples :
    UpdateSystem("app", health) /\ api' = Watch("system", health)

ApiUpdateInterfaces ==
  \E interfaces \in ApiInterfaceLists :
    UpdateInterfaces("app", interfaces) /\ api' = Watch("interfaces", interfaces)

ApiPushCustom ==
  \E name \in ApiCustomNames, payload \in ApiCustomPayloads :
    /\ PushCustom("app", name, payload)
    /\ api' = Watch("custom", CustomEntry(name, payload))

ApiCall ==
  /\ NoCall
  /\ nCalls < MaxUpdates
  /\ \/ ApiUpdateGpio
     \/ ApiUpdateWifi
     \/ ApiUpdateBluetooth
     \/ ApiUpdateSystem
     \/ ApiUpdateInterfaces
     \/ ApiPushCustom
  /\ UNCHANGED netPos

ApiNext ==
  /\ \/ ApiCall
     \/ ThreadStep("app") /\ UNCHANGED api
  /\ UNCHANGED <<settings, hubVars, bcast, status, stopped, held, engine, monVars, client>>

ApiSpec == Init /\ [][ApiNext]_vars

(***************************************************************************)
(* ServerSpec: an application that starts the debugger server, stops it    *)
(* and calls the package's push_custom before, in between and after.  No   *)
(* monitor is enabled.                                                     *)
(***************************************************************************)
ServerSettings == [HubSettings EXCEPT !.gpio_enabled = FALSE]

ServerInit ==
  /\ CreatedWith({ServerSettings}, {})
  /\ engine = None

\* server.py:31-71
StartDebuggerServer ==
  /\ engine = None
  /\ engine' = Some(GetEventLoop("thread"))
  /\ UNCHANGED <<settings, prodVars, hubVars, bcast, status, stopped, held, api, monVars, client>>

\* server.py:26-28: the server is told to exit and runs its shutdown handler
DebuggerHandleStop ==
  /\ engine # None
  /\ Shutdown

\* __init__.py:23-33
PackagePushCustom(cap) ==
  /\ nCalls < cap
  /\ thr["app"].pc = "idle"
  /\ IF engine = None
     THEN UNCHANGED <<snapshot, thr, nCalls, loopQueue>>
     ELSE \E name \in ApiCustomNames, payload \in ApiCustomPayloads :
            PushCustom("app", name, payload)
  /\ UNCHANGED <<settings, netPos, hubVars, bcast, status, auxVars>>

ServerNext ==
  \/ StartDebuggerServer
  \/ DebuggerHandleStop
  \/ PackagePushCustom(MaxUpdates)
  \/ ProducerStep("app")

ServerSpec == ServerInit /\ [][ServerNext]_vars

(***************************************************************************)
(* MonitorSpec: the three monitors, started and stopped by one caller, one  *)
(* call after the other, with their polling threads.  on_change of the      *)
(* GPIOMonitor is the collecting callback of tests/test_gpio_monitor.py.    *)
(***************************************************************************)
notMonVars == <<settings, prodVars, hubVars, bcast, status, stopped, held,
                api, engine, client>>

StartCall(m) ==
  /\ MonitorCalls < MaxMonitorCalls
  /\ MonitorStart(m)
  /\ UNCHANGED notMonVars

StopCall(m) ==
  /\ MonitorCalls < MaxMonitorCalls
  /\ MonitorStop(m)
  /\ UNCHANGED notMonVars

ThreadIds == 1 .. MaxMonitorCalls

GpioThreadStep(id) ==
  /\ GpioLoopTest(id) \/ GpioLoopRead(id) \/ GpioLoopReadRaises(id)
  /\ UNCHANGED notMonVars

MonitorThreadStep(m, id) ==
  /\ MonitorLoopTest(m, id) \/ MonitorLoopBody(m, id)
  /\ UNCHANGED notMonVars

\* The GPIOMonitor alone.
GpioMonitorNext ==
  \/ StartCall("gpio") \/ StopCall("gpio")
  \/ \E id \in ThreadIds : GpioThreadStep(id)

MonitorNext ==
  \/ \E m \in Monitors : StartCall(m) \/ StopCall(m)
  \/ \E id \in ThreadIds : GpioThreadStep(id)
  \/ \E m \in Monitors, id \in ThreadIds : MonitorThreadStep(m, id)

MonitorInit ==
  /\ EngineWith({HubSettings}, {})
  /\ engine = Some(GetEventLoop("cli"))
  /\ poll \in { GpioMonitor(backend, None) : backend \in Backends }

MonitorSpec == MonitorInit /\ [][MonitorNext]_vars

\* The same, with polling threads that the scheduler lets run.
PollingSpec ==
  /\ MonitorSpec
  /\ \A id \in ThreadIds : WF_vars(GpioThreadStep(id))
  /\ \A m \in Monitors, id \in ThreadIds : WF_vars(MonitorThreadStep(m, id))

(***************************************************************************)
(* SampleSpec: the SystemMonitor thread builds its samples with            *)
(* _get_health from what psutil reports and hands them to update_system.    *)
(***************************************************************************)
\* models.py:48-51
ProcessInfo(pid, name, cpu_percent) ==
  [pid |-> pid, name |-> name, cpu_percent |-> cpu_percent]

\* What psutil.process_iter yields: no process, one, or four of which two
\* have the same load and one has none reported.
ProcessTables ==
  { <<>>,
    <<ProcessInfo(1, Some("init"), Some(0))>>,
    <<ProcessInfo(1, Some("init"), Some(0)),
      ProcessInfo(7, Some("python"), Some(40000000)),
      ProcessInfo(9, None, None),
      ProcessInfo(12, Some("sshd"), Some(40000000))>> }

\* system_monitor.py:97: the sort key, x.cpu_percent or 0.0
SortKey(x) == IF x.cpu_percent = None THEN 0 ELSE Val(x.cpu_percent)

\* list.sort(key=..., reverse=True): stable, the greatest key first
RECURSIVE SortDescending(_)
SortDescending(procs) ==
  IF procs = <<>> THEN <<>>
  ELSE LET i == CHOOSE k \in 1 .. Len(procs) :
                  /\ \A j \in 1 .. Len(procs) :
                       SortKey(procs[j]) <= SortKey(procs[k])
                  /\ \A j \in 1 .. (k - 1) :
                       SortKey(procs[j]) < SortKey(procs[k])
       IN <<procs[i]>>
            \o SortDescending(SubSeq(procs, 1, i - 1)
                                \o SubSeq(procs, i + 1, Len(procs)))

\* system_monitor.py:84-101: the local top_processes; None when
\* process_iter raises
TopProcesses(procs, raised) ==
  IF raised THEN None
  ELSE Some(SubSeq(SortDescending(procs), 1,
                   IF Len(procs) < 3 THEN Len(procs) ELSE 3))

\* system_monitor.py:44-115: top_processes is computed and is not among the
\* arguments of SystemHealth(...) at lines 103-115; models.py:34-46 has no
\* such field.
GetHealth(cpu_temp, disk, mem, procs, raised) ==
  LET top_processes == TopProcesses(procs, raised)
  IN SystemHealth(cpu_temp, disk, mem)

\* system_monitor.py:39-42
SystemMonitorPoll(cap) ==
  /\ settings.system_health_enabled
  /\ ~stopped
  /\ nCalls < cap
  /\ \E sample \in FewSystemSamples, procs \in ProcessTables,
        raised \in BOOLEAN :
       UpdateSystem("sys", GetHealth(sample.cpu_temp_c,
                                     sample.disk_used_percent,
                                     sample.memory_percent, procs, raised))
  /\ UNCHANGED netPos

SampleNext ==
  /\ \/ SystemMonitorPoll(MaxUpdates + 2)
     \/ ThreadStep("sys")
     \/ AppPushCustom(MaxUpdates + 2)
     \/ ThreadStep("app")
  /\ UNCHANGED <<settings, hubVars, bcast, status, auxVars>>

SampleSpec == Init /\ [][SampleNext]_vars

(***************************************************************************)
(* BackendSpec: a GPIOMonitor is constructed, asked for a backend by any    *)
(* name on a machine with any of the two libraries, and then started and    *)
(* stopped.                                                                 *)
(***************************************************************************)
BackendInit ==
  /\ EngineWith({HubSettings}, {})
  /\ engine = Some(GetEventLoop("cli"))
  /\ poll = NoGpioMonitor

Construct ==
  /\ \E backend_name \in BackendNames, rpi_gpio \in BOOLEAN,
        gpiozero_available \in BOOLEAN :
       ConstructGpioMonitor(backend_name, rpi_gpio, gpiozero_available)
  /\ UNCHANGED notMonVars

BackendNext ==
  \/ Construct
  \/ poll.backend # "none" /\ GpioMonitorNext

BackendSpec == BackendInit /\ [][BackendNext]_vars

(***************************************************************************)
(* StartupSpec: the application from create_app on, under any choice of the *)
(* four subsystem flags.  The server runs the startup handler before it     *)
(* accepts a connection; the handler starts the monitors there are and      *)
(* awaits send_meta.                                                        *)
(***************************************************************************)
StartupSettings ==
  { [DebuggerSettings EXCEPT !.gpio_enabled = g, !.wifi_enabled = w,
                             !.bluetooth_enabled = b,
                             !.system_health_enabled = h] :
      g \in BOOLEAN, w \in BOOLEAN, b \in BOOLEAN, h \in BOOLEAN }

StartupInit ==
  /\ CreatedWith(StartupSettings, {"A"})
  /\ engine = Some(GetEventLoop("cli"))

\* app.py:36-80: the monitors create_app makes
MonitorExists(m) ==
  IF m = "gpio" THEN settings.gpio_enabled
  ELSE IF m = "net" THEN settings.wifi_enabled \/ settings.bluetooth_enabled
  ELSE settings.system_health_enabled

\* send_meta with every subsystem reported as enabled
MetaMessageAllEnabled(s, snap) ==
  DebuggerMessage("meta",
    [board |-> snap.board, app |-> snap.app, timestamp |-> 0,
     enabled |-> [gpio |-> TRUE, wifi |-> TRUE, bluetooth |-> TRUE,
                  system_health |-> TRUE],
     gpio_schema |-> snap.gpio_schema], 0)

\* engine.py:131-149: the message send_meta builds
MetaMessage(s, snap) ==
  DebuggerMessage("meta",
    [board |-> snap.board, app |-> snap.app, timestamp |-> 0,
     enabled |-> [gpio |-> s.gpio_enabled, wifi |-> s.wifi_enabled,
                  bluetooth |-> s.bluetooth_enabled,
                  system_health |-> s.system_health_enabled],
     gpio_schema |-> snap.gpio_schema], 0)

\* engine.py:128-150: await self.manager.broadcast(...), run by the caller
\* up to the first send
SendMeta ==
  LET m == MetaMessage(settings, snapshot) IN
    /\ bcast' = Watched(m, active, active = <<>>, <<>>)
    /\ IF active = <<>>
       THEN UNCHANGED <<tasks, recv>>
       ELSE /\ recv' = SendJson(recv, active[1], m)
            /\ tasks' = tasks \cup
                 { BroadcastTask(m, 1, TrySend(<<>>, active[1])) }

\* app.py:82-93
Startup ==
  /\ bcast = None
  /\ mon' = [m \in Monitors |->
               IF MonitorExists(m) THEN ThreadStarted(mon[m]) ELSE mon[m]]
  /\ poll' = IF MonitorExists("gpio") THEN PinsSetUp(poll) ELSE poll
  /\ SendMeta
  /\ UNCHANGED <<settings, prodVars, active, ws, broken, reg, status, stopped,
                 held, api, engine, client>>

\* The producers there are once the monitors run: every monitor that exists
\* and the application.
StartupProducers ==
  /\ \/ GpioMonitorLoop(MaxHubUpdates)
     \/ NetworkMonitorWifi(MaxHubUpdates, FewWifiStatuses)
     \/ NetworkMonitorBluetooth(MaxHubUpdates)
     \/ NetworkMonitorInterfaces(MaxHubUpdates)
     \/ SystemMonitorLoop(MaxHubUpdates, FewSystemSamples)
     \/ AppPushCustom(MaxHubUpdates)
     \/ \E t \in Threads : ThreadStep(t)
  /\ UNCHANGED <<settings, hubVars, bcast, status, auxVars>>

StartupNext ==
  \/ Startup
  \/ bcast # None /\ StartupProducers
  \/ bcast # None /\ Handlers
  \/ bcast # None /\ Broadcasts

StartupSpec == StartupInit /\ [][StartupNext]_vars

(***************************************************************************)
(* The properties.                                                         *)
(***************************************************************************)
\* spec 4.2: derive(systemHealth, wirelessStatus, thresholds)
Derive(system, wifi, thresholds) ==
  [cpu_hot |-> /\ system # None
               /\ Val(system).cpu_temp_c # None
               /\ Val(Val(system).cpu_temp_c) > thresholds.cpu_temp_threshold_c,
   disk_low |-> /\ system # None
                /\ Val(system).disk_used_percent > thresholds.disk_usage_threshold_percent,
   memory_high |-> /\ system # None
                   /\ Val(system).memory_percent # None
                   /\ Val(Val(system).memory_percent) > thresholds.memory_usage_threshold_percent,
   wifi_poor |-> /\ wifi # None
                 /\ Val(wifi).signal_level_dbm # None
                 /\ Val(Val(wifi).signal_level_dbm) < thresholds.wifi_signal_threshold_dbm]

\* How often m occurs in an inbox.
Count(inbox, m) == Cardinality({ i \in 1 .. Len(inbox) : inbox[i] = m })

\* C1: no two snapshot-mutating operations execute concurrently: at most one
\* producer thread is between the start and the end of an update call.
C1_AtMostOneUpdateInProgress ==
  Cardinality({ t \in Threads : InCall(t) }) <= 1

\* C2: whenever no update_wifi or update_system call is in progress, the
\* stored health flags are derive(snapshot.system, snapshot.wifi, thresholds).
\* (Spec runs with the default thresholds, which are the limits the code
\* compares against, so only the interleaving is in question here.)
C2_HealthMatchesDeriveWhenIdle ==
  (\A t \in Threads : thr[t].kind \notin {"wifi", "system"})
    => snapshot.health = Derive(snapshot.system, snapshot.wifi, settings)

\* C3: a GET /status response never shows a system or wifi value together
\* with health flags computed from other values than the ones it shows.
C3_StatusShowsMatchingFlags ==
  status # None
    => Val(status).health = Derive(Val(status).system, Val(status).wifi, settings)

\* C4: after update_system or update_wifi returns, in a sequential run, the
\* flags are the ones the configured thresholds give.
C4_FlagsUseConfiguredThresholds ==
  NoCall => snapshot.health = Derive(snapshot.system, snapshot.wifi, settings)

\* C5: with the default thresholds, in a sequential run, after every update
\* has returned: cpu_hot iff cpu_temp_c is present and > 80; disk_low iff
\* disk_used_percent > 90; memory_high iff memory_percent is present and
\* > 90; wifi_poor iff signal_level_dbm is present and < -75.  A value equal
\* to its threshold, an absent field and a sample that never arrived give
\* false.
C5_DefaultThresholdFlags ==
  (settings = DebuggerSettings /\ NoCall) =>
    LET system == snapshot.system
        wifi == snapshot.wifi
        health == snapshot.health
    IN /\ health.cpu_hot <=>
            (system # None /\ Val(system).cpu_temp_c # None
               /\ Val(Val(system).cpu_temp_c) > 80000000)
       /\ health.disk_low <=>
            (system # None /\ Val(system).disk_used_percent > 90000000)
       /\ health.memory_high <=>
            (system # None /\ Val(system).memory_percent # None
               /\ Val(Val(system).memory_percent) > 90000000)
       /\ health.wifi_poor <=>
            (wifi # None /\ Val(wifi).signal_level_dbm # None
               /\ Val(Val(wifi).signal_level_dbm) < -75)

\* C5's case: default thresholds, a fourth update has returned, the current
\* sample has no cpu_temp_c, a disk usage of exactly 90.0 and a memory usage
\* of 90.000001, the wifi level is -76 dBm, and the flags are memory_high
\* and wifi_poor only.
C5_Witness ==
  /\ settings = DebuggerSettings
  /\ Quiet
  /\ nCalls = 4
  /\ snapshot.system = Some(SystemHealth(None, 90000000, Some(90000001)))
  /\ snapshot.wifi = Some(WiFiStatus(TRUE, Some(-76)))
  /\ snapshot.health = [cpu_hot |-> FALSE, disk_low |-> FALSE,
                        memory_high |-> TRUE, wifi_poor |-> TRUE]

\* C6: every websocket receives the incremental messages in the order in
\* which their updates were applied to the snapshot.
C6_DeliveredInOrderOfApplication ==
  \A o \in DOMAIN recv :
    \A i, j \in 1 .. Len(recv[o]) :
      (i < j /\ recv[o][i].type # "snapshot" /\ recv[o][j].type # "snapshot")
        => recv[o][i].seq < recv[o][j].seq

\* C7: the first message a websocket receives is the snapshot message, its
\* contents are the engine snapshot as it was when the websocket was added to
\* the registry, and every registered websocket has been sent it.
C7_FirstMessageIsSnapshot ==
  \A o \in DOMAIN recv :
    /\ o \in Range(active) => recv[o] # <<>>
    /\ recv[o] # <<>> =>
         /\ reg[o] # None
         /\ recv[o][1] = SnapshotMessage(Val(reg[o]).snap)

\* C7's case: a websocket connected while the broadcast of an applied update
\* was still queued or in progress, and has received its snapshot first and
\* that update's message second.
C7_Witness ==
  \E o \in DOMAIN recv :
    /\ Len(recv[o]) = 2
    /\ recv[o][1].type = "snapshot"
    /\ recv[o][2].type = "gpio"
    /\ recv[o][1].data.gpio = (17 :> recv[o][2].data)

\* C8: a websocket never receives the incremental message of an update that
\* was applied before it registered (observer B of the scenario receives its
\* snapshot and nothing else).
C8_NothingFromBeforeRegistration ==
  \A o \in DOMAIN recv :
    \A i \in 2 .. Len(recv[o]) :
      reg[o] # None /\ recv[o][i].seq > Val(reg[o]).seq

ExpectedMessage(t) ==
  [type |-> thr[t].kind, data |-> Val(thr[t].arg), seq |-> thr[t].seq]

\* update_interfaces is one statement: its caller is idle before and after.
ReturnsFromInterfaces(t) == Returns(t) /\ thr[t].pc = "idle"

\* C10 as stated: every update call of every kind, update_interfaces
\* included, hands exactly one message to the loop, tagged with the kind of
\* the reading and carrying the value the call applied.
C10_EveryKindIsBroadcastOnce ==
  [][\A t \in Threads :
       Returns(t) =>
         IF ReturnsFromInterfaces(t)
         THEN /\ Len(Queued) = 1
              /\ Queued[1].type = "interfaces"
              /\ Queued[1].data = snapshot'.interfaces
         ELSE Queued = <<ExpectedMessage(t)>>]_vars

\* C10 as amended: an update_gpio, update_wifi, update_bluetooth,
\* update_system or push_custom call hands exactly one message to the loop,
\* when it returns, tagged gpio, wifi, bluetooth, system or custom and
\* carrying the value the call applied; update_interfaces hands none; and no
\* other step hands the loop anything.
C10_EveryKindButInterfacesIsBroadcastOnce ==
  [][/\ \A t \in Threads :
          Returns(t) =>
            IF ReturnsFromInterfaces(t) THEN Queued = <<>>
            ELSE /\ Queued = <<ExpectedMessage(t)>>
                 /\ thr[t].kind \in {"gpio", "wifi", "bluetooth", "system", "custom"}
     /\ (\A t \in Threads : ~Returns(t)) => Queued = <<>>]_vars

\* C10's case: the network monitor has been round its loop once and no call
\* is in progress: update_wifi and update_bluetooth have a message each on
\* the loop, carrying the values now in the snapshot, and update_interfaces,
\* which stored a non-empty list, has none.
C10_Witness ==
  /\ NoCall
  /\ nCalls = 3
  /\ snapshot.interfaces # <<>>
  /\ Len(loopQueue) = 2
  /\ loopQueue[1] = [type |-> "wifi", data |-> Val(snapshot.wifi), seq |-> 1]
  /\ loopQueue[2] = [type |-> "bluetooth", data |-> Val(snapshot.bluetooth), seq |-> 2]

\* The value stored for the field a reading belongs to, if any.
Stored(snap, kind, arg) ==
  CASE kind = "gpio" ->
         IF arg.pin \in DOMAIN snap.gpio THEN Some(snap.gpio[arg.pin]) ELSE None
    [] kind = "custom" ->
         IF arg.name \in DOMAIN snap.custom THEN Some(snap.custom[arg.name]) ELSE None
    [] kind = "wifi" -> snap.wifi
    [] kind = "bluetooth" -> snap.bluetooth
    [] kind = "system" -> snap.system
    [] OTHER -> None

\* The watched call submitted a reading older than the value then stored
\* for its field.
StaleCall ==
  /\ api # None
  /\ LET stored == Stored(Val(api).before, Val(api).kind, Val(api).arg) IN
       stored # None /\ Val(api).arg.timestamp < Val(stored).timestamp

\* C11: a reading older than the value stored for its field is discarded:
\* from the moment it is submitted the snapshot is what it was before, and
\* no message for it is handed to the loop.
C11_StaleReadingIsDiscarded ==
  StaleCall =>
    /\ snapshot = Val(api).before
    /\ \A i \in 1 .. Len(loopQueue) : loopQueue[i].seq # nCalls

\* C12: in no step does the timestamp stored for a pin, for a custom name,
\* or for wifi, bluetooth or system go back.
C12_StoredTimestampNeverDecreases ==
  [][/\ \A pin \in DOMAIN snapshot.gpio :
          snapshot'.gpio[pin].timestamp >= snapshot.gpio[pin].timestamp
     /\ \A name \in DOMAIN snapshot.custom :
          snapshot'.custom[name].timestamp >= snapshot.custom[name].timestamp
     /\ \A field \in {"wifi", "bluetooth", "system"} :
          snapshot[field] # None =>
            Val(snapshot'[field]).timestamp >= Val(snapshot[field]).timestamp]_vars

\* C13: what DebuggerEngine.snapshot returns is a copy: it is not the live
\* object, and what its holder reads in it stays what it was when it was
\* returned, whatever update is applied afterwards.
C13_SnapshotAccessorReturnsCopy ==
  held # None =>
    /\ Val(held).ref # "_snapshot"
    /\ View(Val(held)) = Val(held).seen

\* C14: every update call returns, whatever becomes of the deliveries: no
\* step of the loop or of a websocket is needed for a producer to get from
\* the start of update_gpio or push_custom to its return.
C14_UpdateReturnsWithoutDelivery ==
  \A t \in Threads : InCall(t) ~> ~InCall(t)

\* C14's case: two broadcasts are suspended in a send that never completes,
\* and the calls that scheduled them, and every call since, have returned.
C14_Witness ==
  /\ Cardinality(tasks) >= 2
  /\ \A b \in tasks : b.idx = 1 /\ active # <<>>
  /\ NoCall
  /\ nCalls = 2

\* C15: an update call that begins after the shutdown handler has run
\* leaves the snapshot as it is.
C15_LateUpdateIsRejected ==
  [][(stopped /\ nCalls' # nCalls) => snapshot' = snapshot]_vars

\* C16: when the shutdown handler has run, every reading submitted before
\* has been applied and its broadcast delivered, and the registry is empty.
C16_StoppedMeansDrainedAndEmpty ==
  stopped =>
    /\ NoCall
    /\ loopQueue = <<>>
    /\ tasks = {}
    /\ active = <<>>

\* What a client makes of one incremental message: the field of its view
\* that the message is tagged with takes the value the message carries.
ApplyMessage(view, m) ==
  CASE m.type = "gpio" -> [view EXCEPT !.gpio = Upsert(@, m.data.pin, m.data)]
    [] m.type = "custom" -> [view EXCEPT !.custom = Upsert(@, m.data.name, m.data)]
    [] m.type = "wifi" -> [view EXCEPT !.wifi = Some(m.data)]
    [] m.type = "bluetooth" -> [view EXCEPT !.bluetooth = Some(m.data)]
    [] m.type = "system" -> [view EXCEPT !.system = Some(m.data)]
    [] OTHER -> view

\* The view of a client that has applied the messages of an inbox, in the
\* order of their arrival, to the snapshot sent first.
RECURSIVE Replay(_, _)
Replay(view, inbox) ==
  IF inbox = <<>> THEN view
  ELSE Replay(ApplyMessage(view, Head(inbox)), Tail(inbox))

\* The fields a client can follow from the incremental messages.
Followed(snap) ==
  [gpio |-> snap.gpio, wifi |-> snap.wifi, bluetooth |-> snap.bluetooth,
   system |-> snap.system, custom |-> snap.custom]

\* C17: when no update is in progress and every scheduled broadcast has
\* completed, the view of every websocket that is still open and whose peer
\* has not gone (its initial snapshot with its incremental messages applied
\* in order of arrival) equals the engine's snapshot in the gpio, wifi,
\* bluetooth, system and custom fields.
C17_LateJoinerConverges ==
  \A o \in DOMAIN recv :
    (Quiet /\ tasks = {} /\ ws[o] = "open" /\ o \notin broken)
      => Followed(Replay(recv[o][1].data, Tail(recv[o]))) = Followed(snapshot)

\* C18: after update_interfaces the snapshot's interfaces are exactly the
\* list submitted, whatever they were before, and nothing else in the
\* snapshot has changed.
C18_InterfacesAreReplaced ==
  (api # None /\ Val(api).kind = "interfaces") =>
    snapshot = [Val(api).before EXCEPT !.interfaces = Val(api).arg]

\* C18's case: the snapshot held eth0 and wlan0, the list submitted holds
\* wlan0 only, and eth0 is gone from the snapshot.
C18_Witness ==
  /\ api # None
  /\ Val(api).kind = "interfaces"
  /\ Len(Val(api).before.interfaces) = 2
  /\ Val(api).before.interfaces[1].name = "eth0"
  /\ Len(Val(api).arg) = 1
  /\ \A i \in 1 .. Len(snapshot.interfaces) : snapshot.interfaces[i].name # "eth0"

\* C19: from the first statement of update_gpio on, the entry of the pin
\* submitted is the reading submitted, the pins with an entry are those that
\* had one and the pin submitted, every other pin's entry is what it was,
\* and so is the rest of the snapshot; the same for push_custom and names.
C19_UpsertByPinAndName ==
  /\ (api # None /\ Val(api).kind = "gpio") =>
       LET arg == Val(api).arg
           before == Val(api).before
       IN /\ DOMAIN snapshot.gpio = DOMAIN before.gpio \cup {arg.pin}
          /\ snapshot.gpio[arg.pin] = arg
          /\ \A pin \in DOMAIN before.gpio \ {arg.pin} :
               snapshot.gpio[pin] = before.gpio[pin]
          /\ [snapshot EXCEPT !.gpio = before.gpio] = before
  /\ (api # None /\ Val(api).kind = "custom") =>
       LET arg == Val(api).arg
           before == Val(api).before
       IN /\ DOMAIN snapshot.custom = DOMAIN before.custom \cup {arg.name}
          /\ snapshot.custom[arg.name] = arg
          /\ \A name \in DOMAIN before.custom \ {arg.name} :
               snapshot.custom[name] = before.custom[name]
          /\ [snapshot EXCEPT !.custom = before.custom] = before

\* C19's case: pins 17 and 27 had an entry each, a different reading for pin
\* 17 was submitted, and the snapshot holds it, with pin 27's entry as it was.
C19_Witness ==
  /\ api # None
  /\ Val(api).kind = "gpio"
  /\ Val(api).arg.pin = 17
  /\ DOMAIN Val(api).before.gpio = {17, 27}
  /\ Val(api).before.gpio[17] # Val(api).arg
  /\ snapshot.gpio[17] = Val(api).arg
  /\ snapshot.gpio[27] = Val(api).before.gpio[27]

\* The watched call submitted the reading that was stored for its field.
Resubmitted ==
  /\ api # None
  /\ Stored(Val(api).before, Val(api).kind, Val(api).arg) = Some(Val(api).arg)

\* C20: when a call that submitted again the reading already stored for its
\* field has returned, the snapshot, health flags included, is what it was
\* before the call, and the message it handed to the loop has the type and
\* the data of a message handed to the loop before.
C20_ResubmissionChangesNothing ==
  (Resubmitted /\ NoCall) =>
    /\ snapshot = Val(api).before
    /\ LET n == Len(loopQueue) IN
         /\ n >= 2
         /\ loopQueue[n].type = Val(api).kind
         /\ loopQueue[n].data = Val(api).arg
         /\ \E i \in 1 .. (n - 1) :
              /\ loopQueue[i].type = loopQueue[n].type
              /\ loopQueue[i].data = loopQueue[n].data

\* C20's case: the wifi status with a level of -80 dBm was submitted twice
\* running; wifi_poor is set as it was after the first call and the loop has
\* two wifi messages with the same data.
C20_Witness ==
  /\ Resubmitted
  /\ NoCall
  /\ nCalls = 2
  /\ Val(api).kind = "wifi"
  /\ Val(api).arg.signal_level_dbm = Some(-80)
  /\ snapshot.health.wifi_poor
  /\ Len(loopQueue) = 2
  /\ loopQueue[1].data = loopQueue[2].data

\* C21: until the first update call begins, the snapshot has no pin
\* reading, no wifi, bluetooth or system value, no custom entry, no
\* interface and no health flag raised, whatever websockets have connected,
\* been sent their snapshot or gone in the meantime.
C21_NewSnapshotIsEmpty ==
  nCalls = 0 =>
    /\ snapshot.gpio = <<>>
    /\ snapshot.wifi = None
    /\ snapshot.bluetooth = None
    /\ snapshot.system = None
    /\ snapshot.custom = <<>>
    /\ snapshot.interfaces = <<>>
    /\ snapshot.health =
         [cpu_hot |-> FALSE, disk_low |-> FALSE, memory_high |-> FALSE,
          wifi_poor |-> FALSE]

\* C21's case: no update has been applied yet and a websocket has been sent
\* the snapshot of the new engine, which holds nothing.
C21_Witness ==
  /\ nCalls = 0
  /\ \E o \in DOMAIN recv :
       /\ ws[o] = "open"
       /\ Len(recv[o]) = 1
       /\ recv[o][1].data.gpio = <<>>
       /\ recv[o][1].data.system = None
       /\ ~recv[o][1].data.health.disk_low

\* C22: while the server is not running (start_debugger_server has not
\* been called, or the server has been stopped) no update call begins, and
\* unless a call begun earlier is still in progress the snapshot and the
\* loop's queue stay as they are.
C22_PushCustomIsNoOpUnlessRunning ==
  [][(engine = None \/ stopped) =>
       /\ nCalls' = nCalls
       /\ NoCall => (snapshot' = snapshot /\ loopQueue' = loopQueue)]_vars

\* C23: for each monitor, start() while a polling thread of it is alive
\* creates no new thread, and over any sequence of start() and stop() calls
\* at most one polling thread of the monitor is alive.
C23_AtMostOnePollingThread ==
  [][\A m \in Monitors :
       /\ Cardinality(mon'[m].alive) <= 1
       /\ mon[m].alive # {} => mon'[m].made = mon[m].made]_vars

\* start(), stop() whose join timed out, start(): the second start() found
\* the first thread alive.
C23_Witness ==
  \E m \in Monitors :
    /\ mon[m].calls = 3
    /\ mon[m].last = "start"
    /\ mon[m].stop
    /\ mon[m].made = 1
    /\ mon[m].alive = {1}

\* on_change has been given a state of every monitored pin, with its label.
AllPinsReported ==
  \A i \in DOMAIN MonitorPins :
    \E state \in poll.collected :
      state.pin = MonitorPins[i] /\ state.label = MonitorLabel(MonitorPins[i])

\* C24: after every GPIOMonitor.start(), unless stop() is called first,
\* on_change is eventually given the state of every monitored pin, with the
\* pin's configured label.
C24_EveryStartReportsEveryPin ==
  (mon["gpio"].last = "start")
    ~> (AllPinsReported \/ mon["gpio"].last = "stop")

\* C25: the backend a GPIOMonitor is constructed with is the mock for "mock";
\* RPi.GPIO for "rpi" when that library is there, else the mock; gpiozero for
\* "gpiozero" when that library is there, else the mock; and for "auto" and
\* any other name RPi.GPIO, else gpiozero, else the mock.  It is never a
\* backend whose library is not there.
C25_BackendFallsBackGracefully ==
  poll.made_with # None =>
    LET asked == Val(poll.made_with)
        auto == IF asked.rpi_gpio THEN "rpi"
                ELSE IF asked.gpiozero_available THEN "gpiozero"
                ELSE "mock"
    IN /\ asked.backend_name = "mock" => poll.backend = "mock"
       /\ asked.backend_name = "rpi" =>
            poll.backend = (IF asked.rpi_gpio THEN "rpi" ELSE "mock")
       /\ asked.backend_name = "gpiozero" =>
            poll.backend =
              (IF asked.gpiozero_available THEN "gpiozero" ELSE "mock")
       /\ asked.backend_name \notin Backends => poll.backend = auto
       /\ poll.backend = "rpi" => asked.rpi_gpio
       /\ poll.backend = "gpiozero" => asked.gpiozero_available

\* "rpi" was asked for on a machine that has gpiozero only: the mock.
C25_Witness ==
  /\ poll.made_with # None
  /\ Val(poll.made_with) =
       [backend_name |-> "rpi", rpi_gpio |-> FALSE,
        gpiozero_available |-> TRUE]
  /\ poll.backend = "mock"

\* The "pong" frames a client has received, the "ping" texts it has sent.
Pongs(o) == Count(recv[o], TextFrame("pong"))
Pings(o) == Count(client[o], "ping")

\* C26: the server answers a client's text with "pong" exactly when the text
\* is "ping", and with nothing otherwise: a client has as many "pong" frames
\* as its handler took "ping" texts from it, every text frame it has is a
\* "pong", and taking a text from a client whose connection stands changes
\* neither the snapshot nor the registry.
C26_PongExactlyForPing ==
  /\ [](\A o \in DOMAIN ws :
          /\ \A i \in 1 .. Len(recv[o]) :
               recv[o][i].type = "text" => recv[o][i] = TextFrame("pong")
          /\ Pongs(o) <= Pings(o)
          /\ ws[o] = "open" => Pongs(o) = Pings(o))
  /\ [][\A o \in DOMAIN ws :
          (client'[o] # client[o] /\ o \notin broken) =>
             /\ snapshot' = snapshot
             /\ active' = active
             /\ Len(recv'[o]) = Len(recv[o])
                  + (IF client'[o][Len(client'[o])] = "ping" THEN 1 ELSE 0)]_vars

\* A registered client sent "status" and then "ping" and has one "pong",
\* after the snapshot.
C26_Witness ==
  \E o \in DOMAIN ws :
    /\ client[o] = <<"status", "ping">>
    /\ Len(recv[o]) = 2
    /\ recv[o][2] = TextFrame("pong")
    /\ Len(active) > 0

\* The meta messages a client has received.
Metas(o) == Cardinality({ i \in 1 .. Len(recv[o]) : recv[o][i].type = "meta" })

\* C27: at startup the engine broadcasts one meta message, to the observers
\* registered at that moment; its enabled map is the gpio, wifi, bluetooth
\* and system_health flags of the settings and its gpio_schema is the pin
\* schema of the snapshot.
C27_MetaAtStartup ==
  /\ [](IF bcast = None
        THEN \A o \in DOMAIN ws : Metas(o) = 0
        ELSE LET meta == Val(bcast).msg
                 to == Range(Val(bcast).start)
             IN /\ meta.type = "meta"
                /\ meta.data.enabled =
                     [gpio |-> settings.gpio_enabled,
                      wifi |-> settings.wifi_enabled,
                      bluetooth |-> settings.bluetooth_enabled,
                      system_health |-> settings.system_health_enabled]
                /\ meta.data.gpio_schema = snapshot.gpio_schema
                /\ \A o \in DOMAIN ws :
                     /\ o \notin to => Metas(o) = 0
                     /\ (o \in to /\ o \notin broken /\ Val(bcast).returned)
                          => Metas(o) = 1)
  /\ [][bcast # None => bcast' = bcast]_vars

\* The startup handler has run with GPIO enabled and the wireless status
\* disabled, and a client has connected since.
C27_Witness ==
  /\ bcast # None
  /\ settings.gpio_enabled
  /\ ~settings.wifi_enabled
  /\ Val(bcast).msg.data.gpio_schema # <<>>
  /\ Val(bcast).returned
  /\ Len(active) = 1
  /\ mon["gpio"].alive = {1}

\* C28: the pin schema is set once, when the application is created, and
\* sampling never changes it: with GPIO enabled it holds exactly one
\* definition per monitored pin, with the pin's configured label, mode "in"
\* and pull "none"; with GPIO disabled it is empty; no step changes it.
C28_SchemaIsStatic ==
  /\ [](IF settings.gpio_enabled
        THEN /\ DOMAIN snapshot.gpio_schema = Pins
             /\ \A p \in Pins :
                  snapshot.gpio_schema[p] =
                    [pin |-> p, label |-> LabelOf(p), mode |-> "in",
                     pull |-> "none"]
        ELSE snapshot.gpio_schema = <<>>)
  /\ [][snapshot'.gpio_schema = snapshot.gpio_schema]_vars

\* GPIO is enabled, and the state of a pin of the schema has been stored.
C28_Witness ==
  /\ settings.gpio_enabled
  /\ DOMAIN snapshot.gpio_schema = Pins
  /\ \E p \in Pins : p \in DOMAIN snapshot.gpio

\* C29: ConnectionManager.disconnect of an observer that is not in the
\* registry (never registered, or removed already, as when two overlapping
\* broadcasts prune the same failed observer) raises nothing and leaves the
\* registry as it was.
C29_DisconnectOfAbsentIsHarmless ==
  api # None =>
    \A i \in 1 .. Len(Val(api).calls) :
      LET call == Val(api).calls[i] IN
        call.websocket \notin Range(call.before) =>
          ~call.raised /\ call.after = call.before

\* A broadcast pruned an observer that another one had pruned already: its
\* handler has not seen the disconnection yet.
C29_Witness ==
  /\ api # None
  /\ \E i \in 1 .. Len(Val(api).calls) :
       LET call == Val(api).calls[i] IN
         /\ call.websocket \notin Range(call.before)
         /\ ws[call.websocket] = "open"
         /\ call.websocket \in broken

\* C30: unregistering is synchronous and immediate: once disconnect has
\* returned for an observer it is not in the registry, and nothing is
\* delivered to it by a broadcast from then on.
C30_UnregisteredGetsNothingMore ==
  /\ [](Gone \cap Range(active) = {})
  /\ [][\A o \in Gone : recv'[o] = recv[o]]_vars

\* disconnect returned for an observer whose connection stands before any
\* broadcast started; both broadcasts have run since and reached another
\* observer, not this one.
C30_Witness ==
  \E o \in Gone, other \in DOMAIN ws :
    /\ o \notin broken
    /\ ws[o] = "open"
    /\ recv[o] = <<>>
    /\ Len(recv[other]) = 2
    /\ loopQueue = <<>>
    /\ tasks = {}

\* A top_processes value as the specification has it: at most 3 processes,
\* in descending order of CPU percent.
IsTopList(top) ==
  /\ Len(top) <= 3
  /\ \A i \in 1 .. (Len(top) - 1) : SortKey(top[i]) >= SortKey(top[i + 1])

\* The system samples in a sequence of messages.
SystemMessages(queue) ==
  { queue[i].data : i \in { j \in 1 .. Len(queue) : queue[j].type = "system" } }

\* C31: every system health sample has a top_processes field, absent (None)
\* or a list of at most 3 processes in descending order of CPU percent, and
\* the field is part of the sample in the snapshot and in the broadcast.
C31_SampleCarriesTopProcesses ==
  \A sample \in (IF snapshot.system = None THEN {} ELSE {Val(snapshot.system)})
                  \cup SystemMessages(loopQueue) :
    /\ "top_processes" \in DOMAIN sample
    /\ sample.top_processes # None => IsTopList(Val(sample.top_processes))

\* The update with this place in the order of application is queued for
\* broadcast.
Scheduled(k) == \E i \in 1 .. Len(loopQueue) : loopQueue[i].seq = k

\* The client has the update message with this place in the order.
Has(o, k) == \E i \in 1 .. Len(recv[o]) : recv[o][i].seq = k

\* C32: delivery is independent per observer: while the sends to one
\* registered observer never complete, every other registered observer still
\* eventually receives each broadcast, the first and every later one.
C32_StalledObserverBlocksNobody ==
  \A o \in Observers \ Stalled :
    \A k \in 1 .. (MaxHubUpdates + 1) :
      (ws[o] = "open" /\ Scheduled(k)) ~> Has(o, k)

\* C33: GPIOMonitor reports changes only: a read of a pin is followed by an
\* on_change call exactly when no value has been reported for the pin yet or
\* the value read differs from the one last reported, so that two
\* consecutive reports for a pin never carry the same value.
C33_ReportsChangesOnly ==
  [][\A id \in DOMAIN poll.pos :
       (poll.pos[id] \in DOMAIN MonitorPins /\ poll'.pos[id] # poll.pos[id]) =>
         LET i == poll.pos[id]
             read == Val(poll'.event)
             before == poll.reported[i]
         IN /\ read.pin = i
            /\ read.called <=> (before = None \/ Val(before) # read.value)
            /\ poll'.reported[i] =
                 (IF read.called THEN Some(read.value) ELSE before)]_vars

\* The second pin read 1, was reported, and has read 1 again since, with no
\* report.
C33_Witness ==
  /\ poll.event = Some([pin |-> 2, value |-> 1, called |-> FALSE])
  /\ poll.reported[2] = Some(1)

\* C37: a stop() followed by a start() leaves the monitor running: after a
\* start() has returned the monitor eventually polls again, unless stop() is
\* called first, also when the old thread had outlived the join of stop().
C37_RestartedMonitorPolls ==
  \A m \in Monitors :
    (mon[m].last = "start") ~> (mon[m].polled \/ mon[m].last = "stop")

\* C38: once stop() has returned no callback of the monitor is invoked, and
\* the GPIOMonitor's backend is not read once it has been cleaned up.
C38_NothingAfterStop ==
  /\ \A m \in Monitors : ~mon[m].late
  /\ ~poll.late_read


\* How many times the client has the update message with this place in the
\* order.
Deliveries(o, k) ==
  Cardinality({ i \in 1 .. Len(recv[o]) : recv[o][i].seq = k })

\* C34: each broadcast delivers its message exactly once to every observer
\* that is registered from its start to its end, whatever connects,
\* disconnects or is pruned while it is suspended in a send.
C34_DeliversToAllThatStay ==
  \A k \in 1 .. 2 :
    Runs[k].state = "returned" =>
      \A o \in Runs[k].stayed : Deliveries(o, k) = 1

\* C35: in both start modes, every update a producer has applied is
\* eventually delivered to every observer that was registered before it
\* and stays connected and healthy.
C35_EveryUpdateIsDelivered ==
  \A o \in Observers :
    \A k \in 1 .. (MaxHubUpdates + 1) :
      (ws[o] = "open" /\ Val(reg[o]).seq < k /\ Scheduled(k)) ~> Has(o, k)

\* The same for a server started from the command line only.
CommandLineDelivers ==
  LoopRuns => C35_EveryUpdateIsDelivered

\* No message of this kind waits on the loop or has reached a client.
NoMessage(kind) ==
  /\ \A i \in 1 .. Len(loopQueue) : loopQueue[i].type # kind
  /\ \A o \in DOMAIN recv :
       \A i \in 1 .. Len(recv[o]) : recv[o][i].type # kind

\* C36: a subsystem that is disabled in the settings is never applied to the
\* snapshot and never broadcast: its field of the snapshot stays as the
\* engine was built with it and no message of its kind exists.
C36_DisabledIsNeverApplied ==
  /\ ~settings.gpio_enabled => snapshot.gpio = <<>> /\ NoMessage("gpio")
  /\ ~settings.wifi_enabled => snapshot.wifi = None /\ NoMessage("wifi")
  /\ ~settings.bluetooth_enabled =>
       snapshot.bluetooth = None /\ NoMessage("bluetooth")
  /\ ~settings.system_health_enabled =>
       snapshot.system = None /\ NoMessage("system")

\* C39: the registry never keeps a websocket whose handler has ended,
\* whatever ended it.
C39_EndedHandlerIsUnregistered ==
  \A o \in DOMAIN ws : ws[o] = "closed" => o \notin Range(active)

\* The fields of the snapshot, and those a method of this kind writes.
SnapshotFields == DOMAIN DebuggerSnapshot
OwnFields(kind) ==
  IF kind \in {"wifi", "system"} THEN {kind, "health"} ELSE {kind}

\* C40: from the first statement of an update call to the next call, every
\* field of the snapshot but the call's own (and, for update_wifi and
\* update_system, the health flags) is what it was before the call: the
\* health flags, app and board included for the four other methods.
C40_UpdatesChangeOnlyTheirPart ==
  api # None =>
    \A f \in SnapshotFields \ OwnFields(Val(api).kind) :
      snapshot[f] = Val(api).before[f]

\* C40's case: wifi_poor was raised and a pin had a reading, update_bluetooth
\* has returned, the bluetooth status is stored and the flags and the pin's
\* reading are as they were.
C40_Witness ==
  /\ api # None
  /\ NoCall
  /\ Val(api).kind = "bluetooth"
  /\ Val(api).before.health.wifi_poor
  /\ Val(api).before.wifi # None
  /\ snapshot.bluetooth = Some(Val(api).arg)
  /\ snapshot.health = Val(api).before.health

====
